---- MODULE Spec2Model ----
(***************************************************************************)
(* Shock-wave diagram engine (ShockwaveDrawer) of traffic-shock-diagrams.  *)
(*                                                                         *)
(* Numbers.  Every Python float is a fixed-point integer: 1.0 is Scale     *)
(* units, the tolerance ABS_TOL = 1e-4 is 30 units and round(x, 4) rounds  *)
(* to a multiple of 30 units.  Every multiplication and division rounds    *)
(* its result to the nearest unit, as the float operation rounds to the    *)
(* nearest float.                                                          *)
(***************************************************************************)
EXTENDS Integers, Sequences, FiniteSets, TLC

VARIABLES
    pc,             \* position of run(): "start", "loop", "batch", "done", "failed"
    err,            \* the exception that ended run(), "none" while there is none
    diagram,        \* the FundamentalDiagram handed to the constructor
    augments,       \* self.augments, with the event each augmenter disables
    interfaces,     \* self.interfaces
    evs,            \* every Event object created so far (the heap), by id
    events,         \* self.events: the SortedList, as ids into evs
    pos_queue,      \* pos_queue of run(): <<class, position, id>>
    intersections,  \* self.intersections: <<[key, ev]>> in insertion order
    truncations,    \* self.truncations
    disable,        \* position in the queue of the event soft-deleted after setup, 0 for none
    batch_taken,    \* history: [id, type, resolved] of the events taken into the open batch
    handled,        \* history: ids of the events popped from pos_queue, in order
    batch_log,      \* history: ids of the events handled or skipped in the open batch
    probe           \* inputs and results of one pure-function application

vars == <<pc, err, diagram, augments, interfaces, evs, events, pos_queue,
          intersections, truncations, disable, batch_taken, handled, batch_log, probe>>

engine_vars == <<pc, err, diagram, augments, interfaces, evs, events, pos_queue,
                 intersections, truncations, disable, batch_taken, handled, batch_log>>

-----------------------------------------------------------------------------
(* Fixed-point arithmetic *)

ABS_TOL == 30
DIGIT_TOLERANCE == 4
EPS == 3000
Scale == ABS_TOL * 10000
Inf == 1000000000

Abs(x) == IF x < 0 THEN -x ELSE x

\* a / b rounded to the nearest unit
RDiv(a, b) ==
    LET n == IF b < 0 THEN -a ELSE a
        d == Abs(b)
        q == n \div d
        r == n % d
    IN  IF r >= d - r THEN q + 1 ELSE q

\* x * y, the product taken in parts so that no intermediate exceeds 32 bits
FMul(x, y) ==
    LET x1 == x \div Scale
        x0 == x % Scale
        y1 == y \div Scale
        y0 == y % Scale
        a == (x0 \div 1000) * y0
        b == (x0 % 1000) * y0
        u == Scale \div 1000
    IN  x1 * y + x0 * y1 + (a \div u) + RDiv((a % u) * 1000 + b, Scale)

\* x / y, the quotient taken in parts likewise
FDiv(x, y) ==
    LET n == IF y < 0 THEN -x ELSE x
        d == Abs(y)
        hi == 200
        lo == Scale \div hi
        a == (n % d) * hi
    IN  (n \div d) * Scale + (a \div d) * lo + RDiv((a % d) * lo, d)

Pow10(n) == IF n = 0 THEN 1 ELSE IF n = 1 THEN 10 ELSE IF n = 2 THEN 100
            ELSE IF n = 3 THEN 1000 ELSE 10000

\* round(x, DIGIT_TOLERANCE)
Round(x) ==
    LET u == Scale \div Pow10(DIGIT_TOLERANCE)
    IN  RDiv(x, u) * u

float_isclose(x, y) == Abs(x - y) <= ABS_TOL

-----------------------------------------------------------------------------
(* dtPoint *)

Pt(t, p) == [time |-> t, position |-> p]

NoPoint == Pt(-Inf, -Inf)       \* None where an Optional[dtPoint] is expected

dtPoint__eq(p, q) ==
    float_isclose(p.time, q.time) /\ float_isclose(p.position, q.position)

dtPoint__hash(p) == <<Round(p.time), Round(p.position)>>

\* dtPoint.get_slope; the ValueError is dtPoint_get_slope_raises
dtPoint_get_slope_raises(p, q) == float_isclose(p.time, q.time)

dtPoint_get_slope(p, q) == FDiv(p.position - q.position, p.time - q.time)

\* key lookup of a dict keyed by dtPoint: same hash, then __eq__
RECURSIVE dict_find(_, _, _)
dict_find(dict, p, i) ==
    IF i > Len(dict) THEN 0
    ELSE IF dtPoint__hash(dict[i].key) = dtPoint__hash(p) /\ dtPoint__eq(dict[i].key, p)
         THEN i
         ELSE dict_find(dict, p, i + 1)

dict_pop(dict, i) == [j \in 1..(Len(dict) - 1) |-> IF j < i THEN dict[j] ELSE dict[j + 1]]

-----------------------------------------------------------------------------
(* State and FundamentalDiagram *)

St(k, q) == [density |-> k, flow |-> q]

NoState == St(-Inf, -Inf)       \* None where an Optional[State] is expected

State__eq(s, t) ==
    float_isclose(s.density, t.density) /\ float_isclose(s.flow, t.flow)

State_get_interface_slope(s, t) == FDiv(s.flow - t.flow, s.density - t.density)

capacity_density(fd) ==
    FDiv(FMul(fd.trafficwave_speed, fd.jam_density), fd.trafficwave_speed + fd.freeflow_speed)

capacity(fd) == FMul(capacity_density(fd), fd.freeflow_speed)

\* scipy interp1d([0, x1, x2], [0, y1, 0]) at x
interp1d(x1, y1, x2, x) ==
    IF x <= x1 THEN FMul(FDiv(y1, x1), x)
    ELSE FMul(FDiv(0 - y1, x2 - x1), x - x1) + y1

\* self.func of the diagram
func(fd, x) == interp1d(capacity_density(fd), capacity(fd), fd.jam_density, x)

\* FundamentalDiagram.__init__ raises no ValueError
FundamentalDiagram_valid(fd) ==
    /\ fd.freeflow_speed > 0 /\ fd.jam_density > 0 /\ fd.trafficwave_speed > 0
    /\ fd.freeflow_speed > fd.trafficwave_speed
    /\ fd.init_density >= 0 /\ fd.init_density <= fd.jam_density

get_state_raises(fd, density) == ~(density >= 0 /\ density <= fd.jam_density)

get_state(fd, density) == St(density, func(fd, density))

get_initial_state(fd) == get_state(fd, fd.init_density)

get_max_state(fd) == St(capacity_density(fd), capacity(fd))

get_interface_slope_raises(fd, x, y) ==
    float_isclose(x, y) \/ get_state_raises(fd, x) \/ get_state_raises(fd, y)

get_interface_slope(fd, x, y) ==
    State_get_interface_slope(get_state(fd, x), get_state(fd, y))

\* a lookup that answers every flow with the state of greatest flow
get_state_by_flow_max(fd, flow, left) == get_max_state(fd)

get_state_by_flow(fd, flow, left) ==
    IF float_isclose(flow, capacity(fd)) THEN get_max_state(fd)
    ELSE IF left THEN St(FDiv(flow, fd.freeflow_speed), flow)
    ELSE St(FDiv(flow - capacity(fd) - FMul(fd.trafficwave_speed, capacity_density(fd)),
                 0 - fd.trafficwave_speed), flow)

state_is_queued_raises(fd, s) == ~(s.density >= 0 /\ s.density <= fd.jam_density)

state_is_queued(fd, s) ==
    s.density > capacity_density(fd) /\ ~float_isclose(s.density, capacity_density(fd))

-----------------------------------------------------------------------------
(* Interface, UserInterface *)

PLOT_THRESHOLD_OFFSET == Scale

Interface__init(point, slope, above, below, lower_bound, upper_bound) ==
    [point |-> point, slope |-> slope,
     e0 |-> IF lower_bound = NoPoint
            THEN Pt(0 - PLOT_THRESHOLD_OFFSET,
                    point.position - FMul(slope, point.time) - FMul(PLOT_THRESHOLD_OFFSET, slope))
            ELSE lower_bound,
     e1 |-> IF upper_bound = NoPoint THEN Pt(Inf, Inf) ELSE upper_bound,
     above |-> above, below |-> below, user |-> FALSE, augment |-> 0]

UserInterface__init(point, slope, augment, lower_bound, upper_bound) ==
    [Interface__init(point, slope, NoState, NoState, lower_bound, upper_bound)
        EXCEPT !.user = TRUE, !.augment = augment]

has_endpoint(self, point) ==
    dtPoint__eq(self.e0, point) \/ dtPoint__eq(self.e1, point)

\* a get_pos_at_time that gives a position at every time, the bounds untested
get_pos_at_time_is_None_never(self, time) == FALSE

\* a get_pos_at_time that tests the upper bound alone: the line is taken to
\* exist before the lower bound
get_pos_at_time_is_None_open(self, time) == self.e1.time < time

\* get_pos_at_time(time) is None
get_pos_at_time_is_None(self, time) == self.e1.time < time \/ self.e0.time > time

get_pos_at_time(self, time) == self.point.position + FMul(self.slope, time - self.point.time)

has_valid_states(self) == self.above # NoState /\ self.below # NoState

\* Interface.get_slope: AttributeError on an open upper bound, ValueError of dtPoint.get_slope
Interface_get_slope_raises(self) ==
    IF self.e1.time = Inf THEN "AttributeError"
    ELSE IF dtPoint_get_slope_raises(self.e0, self.e1) THEN "ValueError"
    ELSE "none"

Interface_get_slope(self) == dtPoint_get_slope(self.e0, self.e1)

\* the end of Interface.intersection: pos1 and pos2 are the positions of the
\* two interfaces at the time found, missing when either is None
intersection_positions(time_of_intersection, missing, pos1, pos2) ==
    IF missing \/ pos1 = 0 \/ pos2 = 0 THEN [raises |-> FALSE, pt |-> NoPoint]
    ELSE IF ~float_isclose(pos1, pos2) THEN [raises |-> TRUE, pt |-> NoPoint]
    ELSE [raises |-> FALSE, pt |-> Pt(time_of_intersection, pos1)]

intersection_at(self, other, time_of_intersection) ==
    intersection_positions(time_of_intersection,
                           get_pos_at_time_is_None(self, time_of_intersection)
                               \/ get_pos_at_time_is_None(other, time_of_intersection),
                           get_pos_at_time(self, time_of_intersection),
                           get_pos_at_time(other, time_of_intersection))

\* Interface.intersection with the time of intersection off by r, the error of
\* the floating-point sum and quotient that give it: [raises, pt]; pt = NoPoint
\* for None
intersection_rounded(self, other, r) ==
    IF float_isclose(self.slope, other.slope) THEN [raises |-> FALSE, pt |-> NoPoint]
    ELSE intersection_at(self, other,
                         FDiv(other.point.position - FMul(other.slope, other.point.time)
                                - self.point.position + FMul(self.slope, self.point.time),
                              self.slope - other.slope) + r)

\* Interface.intersection, the time of intersection computed exactly
intersection(self, other) == intersection_rounded(self, other, 0)

\* the check of add_cutoff that a bound given lies on the line
off_line(self, p) ==
    p # NoPoint
    /\ (dtPoint_get_slope_raises(self.point, p)
        \/ ~float_isclose(self.slope, dtPoint_get_slope(self.point, p)))

\* a bound of add_cutoff that is an endpoint already is dropped
new_bound(self, p) == IF p # NoPoint /\ has_endpoint(self, p) THEN NoPoint ELSE p

\* an add_cutoff that moves the lower endpoint along with the reference
\* point: a cut from above moves both sides
add_cutoff_bounds_both(self, lower, upper) ==
    IF off_line(self, lower) \/ off_line(self, upper)
       \/ ~(lower = NoPoint \/ upper = NoPoint \/ lower.time < upper.time)
    THEN [raises |-> TRUE, iface |-> self]
    ELSE IF lower = NoPoint /\ upper = NoPoint
    THEN [raises |-> FALSE, iface |-> self]
    ELSE [raises |-> FALSE,
          iface |-> [self EXCEPT
                       !.point = IF lower = NoPoint THEN upper ELSE lower,
                       !.e0 = IF lower = NoPoint THEN upper
                              ELSE IF @.time < lower.time THEN lower ELSE @,
                       !.e1 = IF upper # NoPoint /\ @.time > upper.time THEN upper ELSE @]]

\* add_cutoff with the bounds that are left
add_cutoff_bounds(self, lower, upper) ==
    IF off_line(self, lower) \/ off_line(self, upper)
       \/ ~(lower = NoPoint \/ upper = NoPoint \/ lower.time < upper.time)
    THEN [raises |-> TRUE, iface |-> self]
    ELSE IF lower = NoPoint /\ upper = NoPoint
    THEN [raises |-> FALSE, iface |-> self]
    ELSE [raises |-> FALSE,
          iface |-> [self EXCEPT
                       !.point = IF lower = NoPoint THEN upper ELSE lower,
                       !.e0 = IF lower # NoPoint /\ @.time < lower.time THEN lower ELSE @,
                       !.e1 = IF upper # NoPoint /\ @.time > upper.time THEN upper ELSE @]]

\* Interface.add_cutoff: [raises, iface]; NoPoint for an argument left out
add_cutoff(self, lower, upper) ==
    add_cutoff_bounds(self, new_bound(self, lower), new_bound(self, upper))

-----------------------------------------------------------------------------
(* Events *)

AnyCapacity == 0 - Scale        \* the float -1

Event__init(type, point, priority) ==
    [type |-> type, point |-> point, priority |-> priority, disabled |-> FALSE,
     interfaces |-> <<>>, interface |-> 0, user_interface |-> 0,
     prior_capacity |-> AnyCapacity, posterior_capacity |-> AnyCapacity]

IntersectionEvent(point, ifaces) ==
    [Event__init("intersection", point, 1) EXCEPT !.interfaces = ifaces]

CapacityEvent(point, iface, prior, posterior) ==
    [Event__init("capacity", point, 2) EXCEPT
        !.interface = iface, !.prior_capacity = prior, !.posterior_capacity = posterior]

TruncationEvent(point, user_interface, ifaces) ==
    [Event__init("truncation", point, 0) EXCEPT
        !.user_interface = user_interface, !.interfaces = ifaces]

\* Event.__eq__ as written in the base class
Event__eq(a, b) == dtPoint__eq(a.point, b.point) /\ a.priority = b.priority

\* the __eq__ that @dataclass generates for each concrete event class and that
\* `self == other` therefore calls: same class and all fields equal
dataclass__eq(a, b) ==
    /\ a.type = b.type
    /\ dtPoint__eq(a.point, b.point)
    /\ a.priority = b.priority
    /\ a.disabled = b.disabled
    /\ a.interfaces = b.interfaces
    /\ a.interface = b.interface
    /\ a.user_interface = b.user_interface
    /\ a.prior_capacity = b.prior_capacity
    /\ a.posterior_capacity = b.posterior_capacity

Event__lt(a, b) ==
    IF dataclass__eq(a, b) THEN FALSE
    ELSE IF float_isclose(a.point.time, b.point.time)
    THEN IF a.priority = b.priority
         THEN a.point.position > b.point.position
         ELSE a.priority < b.priority
    ELSE a.point.time < b.point.time

\* tuples of pos_queue compared by class and then as the event queue compares
\* their events
tuple__lt_queue(E, s, t) ==
    IF s[1] # t[1] THEN s[1] < t[1]
    ELSE IF dataclass__eq(E[s[3]], E[t[3]]) THEN FALSE
    ELSE Event__lt(E[s[3]], E[t[3]])

\* comparison of the tuples (class, position, event) of pos_queue
tuple__lt(E, s, t) ==
    IF s[1] # t[1] THEN s[1] < t[1]
    ELSE IF s[2] # t[2] THEN s[2] < t[2]
    ELSE IF dataclass__eq(E[s[3]], E[t[3]]) THEN FALSE
    ELSE Event__lt(E[s[3]], E[t[3]])

InsertAt(a, k, x) == SubSeq(a, 1, k) \o <<x>> \o SubSeq(a, k + 1, Len(a))

InSeq(x, a) == \E i \in 1..Len(a) : a[i] = x

\* bisect.bisect_right over the event queue
RECURSIVE bisect_right_events(_, _, _, _, _)
bisect_right_events(E, a, x, lo, hi) ==
    IF lo >= hi THEN lo
    ELSE LET mid == (lo + hi) \div 2
         IN  IF Event__lt(E[x], E[a[mid + 1]])
             THEN bisect_right_events(E, a, x, lo, mid)
             ELSE bisect_right_events(E, a, x, mid + 1, hi)

\* an add that keeps one event per Event.__eq__ class, as a sorted set would
SortedList_add_unique(E, a, x) ==
    IF \E i \in 1..Len(a) : Event__eq(E[a[i]], E[x]) THEN a
    ELSE IF a = <<>> THEN <<x>>
    ELSE IF Event__lt(E[x], E[a[Len(a)]])
    THEN InsertAt(a, bisect_right_events(E, a, x, 0, Len(a)), x)
    ELSE Append(a, x)

\* SortedList.add of event x (an id into E) to the queue a
SortedList_add(E, a, x) ==
    IF a = <<>> THEN <<x>>
    ELSE IF Event__lt(E[x], E[a[Len(a)]])
    THEN InsertAt(a, bisect_right_events(E, a, x, 0, Len(a)), x)
    ELSE Append(a, x)

RECURSIVE bisect_right_tuples(_, _, _, _, _)
bisect_right_tuples(E, a, x, lo, hi) ==
    IF lo >= hi THEN lo
    ELSE LET mid == (lo + hi) \div 2
         IN  IF tuple__lt(E, x, a[mid + 1])
             THEN bisect_right_tuples(E, a, x, lo, mid)
             ELSE bisect_right_tuples(E, a, x, mid + 1, hi)

\* SortedList.add of the tuple x to pos_queue a
pos_queue_add(E, a, x) ==
    IF a = <<>> THEN <<x>>
    ELSE IF tuple__lt(E, x, a[Len(a)])
    THEN InsertAt(a, bisect_right_tuples(E, a, x, 0, Len(a)), x)
    ELSE Append(a, x)

-----------------------------------------------------------------------------
(* ShockwaveDrawer.  The operators below take and return the drawer's data  *)
(* as one record D = [interfaces, evs, events, intersections, truncations,  *)
(* err, ret]: err is the exception raised ("none" if none), ret the value   *)
(* returned by the handler.  A value a method computes once and uses        *)
(* several times is handed on as a parameter of the operator that models    *)
(* the rest of the method.                                                  *)

Raise(D, e) == [D EXCEPT !.err = e]

Return(D, value) == [D EXCEPT !.ret = value]

Min(x, y) == IF x < y THEN x ELSE y

\* _add_interface, lines 183-192: interface meets the user interface i at
\* intersect; k is the place of intersect in self.truncations (0 if absent)
add_truncation(D, i, intersect, k) ==
    IF k # 0
    THEN [D EXCEPT !.evs[D.truncations[k].ev].interfaces =
                       IF InSeq(Len(D.interfaces) + 1, @) THEN @
                       ELSE Append(@, Len(D.interfaces) + 1)]
    ELSE [D EXCEPT !.evs = Append(@, TruncationEvent(intersect, i, <<Len(D.interfaces) + 1>>)),
                   !.truncations = Append(@, [key |-> intersect, ev |-> Len(D.evs) + 1]),
                   !.events = SortedList_add(
                                  Append(D.evs, TruncationEvent(intersect, i,
                                                                <<Len(D.interfaces) + 1>>)),
                                  @, Len(D.evs) + 1)]

\* the interfaces of an IntersectionEvent after x and then new are appended
\* unless present
appended_both(ifaces, x, new) ==
    IF InSeq(x, ifaces)
    THEN IF InSeq(new, ifaces) THEN ifaces ELSE Append(ifaces, new)
    ELSE IF InSeq(new, Append(ifaces, x)) THEN Append(ifaces, x)
         ELSE Append(Append(ifaces, x), new)

\* _add_interface, lines 193-204: interface meets the organic interface i at
\* intersect; k is the place of intersect in self.intersections (0 if absent)
add_intersection(D, i, intersect, k) ==
    IF k # 0
    THEN [D EXCEPT !.evs[D.intersections[k].ev].interfaces =
                       appended_both(@, i, Len(D.interfaces) + 1)]
    ELSE [D EXCEPT !.evs = Append(@, IntersectionEvent(intersect, <<Len(D.interfaces) + 1, i>>)),
                   !.intersections = Append(@, [key |-> intersect, ev |-> Len(D.evs) + 1]),
                   !.events = SortedList_add(
                                  Append(D.evs, IntersectionEvent(intersect,
                                                                  <<Len(D.interfaces) + 1, i>>)),
                                  @, Len(D.evs) + 1)]

\* a round that queues an intersection event whatever interface is met
add_interface_meet_organic(D, interface, i, r) ==
    IF r.raises THEN Raise(D, "AssertionError")
    ELSE IF r.pt = NoPoint \/ has_endpoint(interface, r.pt) THEN D
    ELSE add_intersection(D, i, r.pt, dict_find(D.intersections, r.pt, 1))

\* one round of the loop of _add_interface: r is interface.intersection(x)
\* for the i-th interface x of the list
add_interface_meet(D, interface, i, r) ==
    IF r.raises THEN Raise(D, "AssertionError")
    ELSE IF r.pt = NoPoint \/ has_endpoint(interface, r.pt) THEN D
    ELSE IF D.interfaces[i].user
    THEN add_truncation(D, i, r.pt, dict_find(D.truncations, r.pt, 1))
    ELSE add_intersection(D, i, r.pt, dict_find(D.intersections, r.pt, 1))

\* the loop of _add_interface over self.interfaces, from the i-th on
RECURSIVE add_interface_scan(_, _, _)
add_interface_scan(D, interface, i) ==
    IF D.err # "none" \/ i > Len(D.interfaces) THEN D
    ELSE add_interface_scan(
             add_interface_meet(D, interface, i, intersection(interface, D.interfaces[i])),
             interface, i + 1)

\* self.interfaces.append(interface), reached unless the loop raised
interfaces_append(D, interface) ==
    IF D.err # "none" THEN D
    ELSE [D EXCEPT !.interfaces = Append(@, interface)]

\* _add_interface putting the new interface at the head of the list, which
\* moves every interface already in it
add_interface_at_head(D, interface) ==
    LET D1 == add_interface_scan(D, interface, 1)
    IN  IF D1.err # "none" THEN D1
        ELSE [D1 EXCEPT !.interfaces = <<interface>> \o @]

add_interface(D, interface) ==
    interfaces_append(add_interface_scan(D, interface, 1), interface)

\* scale * (point.position - cur) of the loop of _resolve_state
scan_distance(interface, point, below) ==
    (IF below THEN 1 ELSE -1)
        * (point.position - get_pos_at_time(interface, point.time + EPS))

\* the loop of _resolve_state without the comparison of slopes of lines
\* 275-278: of the interfaces at the same distance the first one is kept
RECURSIVE resolve_scan_kept(_, _, _, _, _, _)
resolve_scan_kept(ifaces, point, below, i, res, min_dist) ==
    IF i > Len(ifaces) THEN res
    ELSE IF ifaces[i].above = NoState
    THEN IF ifaces[i].user
         THEN resolve_scan_kept(ifaces, point, below, i + 1, res, min_dist)
         ELSE -1
    ELSE IF get_pos_at_time_is_None(ifaces[i], point.time + EPS)
            \/ float_isclose(point.position, get_pos_at_time(ifaces[i], point.time + EPS))
    THEN resolve_scan_kept(ifaces, point, below, i + 1, res, min_dist)
    ELSE IF res # 0 /\ float_isclose(scan_distance(ifaces[i], point, below), min_dist)
    THEN resolve_scan_kept(ifaces, point, below, i + 1, res, min_dist)
    ELSE IF scan_distance(ifaces[i], point, below) >= 0
            /\ scan_distance(ifaces[i], point, below) < min_dist
    THEN resolve_scan_kept(ifaces, point, below, i + 1, i, scan_distance(ifaces[i], point, below))
    ELSE resolve_scan_kept(ifaces, point, below, i + 1, res, min_dist)

\* a loop that stops at the first interface found on the side asked for,
\* however far it is
resolve_scan_first(ifaces, point, below, i, res, min_dist) ==
    IF \E k \in 1..Len(ifaces) :
           /\ ifaces[k].above # NoState
           /\ ~get_pos_at_time_is_None(ifaces[k], point.time + EPS)
           /\ (IF below THEN 1 ELSE -1)
                  * (point.position - get_pos_at_time(ifaces[k], point.time + EPS)) > ABS_TOL
    THEN CHOOSE k \in 1..Len(ifaces) :
           /\ ifaces[k].above # NoState
           /\ ~get_pos_at_time_is_None(ifaces[k], point.time + EPS)
           /\ (IF below THEN 1 ELSE -1)
                  * (point.position - get_pos_at_time(ifaces[k], point.time + EPS)) > ABS_TOL
           /\ \A m \in 1..(k - 1) :
                 \/ ifaces[m].above = NoState
                 \/ get_pos_at_time_is_None(ifaces[m], point.time + EPS)
                 \/ (IF below THEN 1 ELSE -1)
                        * (point.position - get_pos_at_time(ifaces[m], point.time + EPS)) <= ABS_TOL
    ELSE 0

\* the loop of _resolve_state: the index of res (0 for None, -1 when the
\* assertion on an interface without states fails)
RECURSIVE resolve_scan(_, _, _, _, _, _)
resolve_scan(ifaces, point, below, i, res, min_dist) ==
    IF i > Len(ifaces) THEN res
    ELSE
      LET interface == ifaces[i]
          scale == IF below THEN 1 ELSE -1
          cur == get_pos_at_time(interface, point.time + EPS)
          dist == scale * (point.position - cur)
      IN  IF interface.above = NoState
          THEN IF interface.user
               THEN resolve_scan(ifaces, point, below, i + 1, res, min_dist)
               ELSE -1
          ELSE IF get_pos_at_time_is_None(interface, point.time + EPS)
                  \/ float_isclose(point.position, cur)
          THEN resolve_scan(ifaces, point, below, i + 1, res, min_dist)
          ELSE IF res # 0 /\ float_isclose(dist, min_dist)
          THEN IF (below /\ interface.slope > ifaces[res].slope)
                  \/ (~below /\ interface.slope < ifaces[res].slope)
               THEN resolve_scan(ifaces, point, below, i + 1, i, min_dist)
               ELSE resolve_scan(ifaces, point, below, i + 1, res, min_dist)
          ELSE IF dist >= 0 /\ dist < min_dist
          THEN resolve_scan(ifaces, point, below, i + 1, i, dist)
          ELSE resolve_scan(ifaces, point, below, i + 1, res, min_dist)

\* the end of _resolve_state, res being the interface the loop found
resolve_found(ifaces, fd, below, res) ==
    IF res = -1 THEN [raises |-> TRUE, state |-> NoState]
    ELSE IF res = 0 THEN [raises |-> FALSE, state |-> get_initial_state(fd)]
    ELSE IF ifaces[res].below = NoState THEN [raises |-> TRUE, state |-> NoState]
    ELSE [raises |-> FALSE,
          state |-> IF below THEN ifaces[res].above ELSE ifaces[res].below]

\* _resolve_state: [raises, state]
resolve_state(ifaces, fd, point, below) ==
    resolve_found(ifaces, fd, below, resolve_scan(ifaces, point, below, 1, 0, Inf))

\* set_above_state without its assignment: the state above stays as it was
set_above_state_unassigned(D, i, state) == D

\* Interface.set_above_state / set_below_state on interface i of D
set_above_state(D, i, state) ==
    IF D.err # "none" THEN D
    ELSE IF D.interfaces[i].above # NoState
    THEN IF State__eq(D.interfaces[i].above, state) THEN D ELSE Raise(D, "AssertionError")
    ELSE [D EXCEPT !.interfaces[i].above = state]

set_below_state(D, i, state) ==
    IF D.err # "none" THEN D
    ELSE IF D.interfaces[i].below # NoState
    THEN IF State__eq(D.interfaces[i].below, state) THEN D ELSE Raise(D, "AssertionError")
    ELSE [D EXCEPT !.interfaces[i].below = state]

\* lines 383-404 and 429-448 of _handle_capacity_event: a created interface
\* (main or byproduct) labels the originating interface ui
\* reconcile without the comparison of the two slopes
reconcile_unchecked(D, ui, point, created, interface_slope) ==
    IF D.err # "none" THEN D
    ELSE IF dtPoint__eq(D.interfaces[ui].e1, point)
    THEN IF created.slope < interface_slope THEN set_below_state(D, ui, created.below)
         ELSE IF created.slope > interface_slope THEN set_above_state(D, ui, created.above)
         ELSE D
    ELSE IF created.slope < interface_slope THEN set_below_state(D, ui, created.above)
         ELSE IF created.slope > interface_slope THEN set_above_state(D, ui, created.below)
         ELSE D

reconcile(D, ui, point, created, interface_slope) ==
    IF D.err # "none" THEN D
    ELSE IF float_isclose(created.slope, interface_slope) THEN Raise(D, "RuntimeError")
    ELSE IF dtPoint__eq(D.interfaces[ui].e1, point)
    THEN IF created.slope < interface_slope THEN set_below_state(D, ui, created.below)
         ELSE IF created.slope > interface_slope THEN set_above_state(D, ui, created.above)
         ELSE D
    ELSE IF created.slope < interface_slope THEN set_below_state(D, ui, created.above)
         ELSE IF created.slope > interface_slope THEN set_above_state(D, ui, created.below)
         ELSE D

\* self._add_interface(created) followed by the labelling of ui
add_created(D, ui, point, created, interface_slope) ==
    reconcile(add_interface(D, created), ui, point, created, interface_slope)

\* lines 366-404: the main interface, between main_interface_state and below
capacity_drop_main(D, fd, cur, below, interface_slope, main_interface_state) ==
    IF ~State__eq(main_interface_state, below)
    THEN IF get_interface_slope_raises(fd, main_interface_state.density, below.density)
         THEN Raise(D, "ValueError")
         ELSE add_created(D, cur.interface, cur.point,
                          Interface__init(cur.point,
                              get_interface_slope(fd, main_interface_state.density, below.density),
                              main_interface_state, below, cur.point, NoPoint),
                          interface_slope)
    ELSE set_below_state(D, cur.interface, below)

\* lines 406-453: the byproduct interface, between above and
\* byproduct_interface_state
capacity_drop_byproduct(D, fd, cur, above, interface_slope, byproduct_interface_state) ==
    IF D.err # "none" THEN D
    ELSE IF ~State__eq(byproduct_interface_state, above)
    THEN IF get_interface_slope_raises(fd, above.density, byproduct_interface_state.density)
         THEN Raise(D, "ValueError")
         ELSE add_created(D, cur.interface, cur.point,
                          Interface__init(cur.point,
                              get_interface_slope(fd, above.density, byproduct_interface_state.density),
                              above, byproduct_interface_state, cur.point, NoPoint),
                          interface_slope)
    ELSE set_above_state(D, cur.interface, above)

\* the else branch of _handle_capacity_event with the two states found
capacity_drop_states(D, fd, cur, above, below, interface_slope, main_interface_state, byproduct_interface_state) ==
    Return(capacity_drop_byproduct(
               capacity_drop_main(D, fd, cur, below, interface_slope, main_interface_state),
               fd, cur, above, interface_slope, byproduct_interface_state),
           ~State__eq(main_interface_state, below)
               \/ ~State__eq(byproduct_interface_state, above))

\* the else branch of _handle_capacity_event (an actual decrease in capacity)
capacity_drop(D, fd, cur, above, below, posterior_capacity, interface_slope) ==
    capacity_drop_states(D, fd, cur, above, below, interface_slope,
                         get_state_by_flow(fd, posterior_capacity, FALSE),
                         get_state_by_flow(fd, posterior_capacity, TRUE))

\* _handle_capacity_event from line 343 on, the capacities being settled
\* capacity_change with an equal capacity counted as a decrease
capacity_change_strict(D, fd, cur, above, below, prior_capacity, posterior_capacity) ==
    IF prior_capacity # below.flow THEN Return(D, FALSE)
    ELSE IF Interface_get_slope_raises(D.interfaces[cur.interface]) # "none"
    THEN Raise(D, Interface_get_slope_raises(D.interfaces[cur.interface]))
    ELSE IF state_is_queued_raises(fd, below) THEN Raise(D, "ValueError")
    ELSE IF posterior_capacity > prior_capacity
            /\ (~state_is_queued(fd, below) \/ State__eq(above, below))
    THEN IF ~float_isclose(above.density, below.density)
         THEN IF get_interface_slope_raises(fd, above.density, below.density)
              THEN Raise(D, "ValueError")
              ELSE Return(add_interface(D, Interface__init(cur.point,
                              get_interface_slope(fd, above.density, below.density),
                              above, below, cur.point, NoPoint)), FALSE)
         ELSE Return(D, FALSE)
    ELSE capacity_drop(D, fd, cur, above, below, posterior_capacity,
                       Interface_get_slope(D.interfaces[cur.interface]))

\* _handle_capacity_event from line 333 on: the event takes effect whatever
\* flow arrives, the test of lines 330-331 left out
capacity_change_unconditional(D, fd, cur, above, below, prior_capacity, posterior_capacity) ==
    IF Interface_get_slope_raises(D.interfaces[cur.interface]) # "none"
    THEN Raise(D, Interface_get_slope_raises(D.interfaces[cur.interface]))
    ELSE IF state_is_queued_raises(fd, below) THEN Raise(D, "ValueError")
    ELSE IF (posterior_capacity > prior_capacity
               \/ float_isclose(posterior_capacity, prior_capacity))
            /\ (~state_is_queued(fd, below) \/ State__eq(above, below))
    THEN IF ~float_isclose(above.density, below.density)
         THEN IF get_interface_slope_raises(fd, above.density, below.density)
              THEN Raise(D, "ValueError")
              ELSE Return(add_interface(D, Interface__init(cur.point,
                              get_interface_slope(fd, above.density, below.density),
                              above, below, cur.point, NoPoint)), FALSE)
         ELSE Return(D, FALSE)
    ELSE capacity_drop(D, fd, cur, above, below, posterior_capacity,
                       Interface_get_slope(D.interfaces[cur.interface]))

capacity_change(D, fd, cur, above, below, prior_capacity, posterior_capacity) ==
    IF prior_capacity # below.flow THEN Return(D, FALSE)
    ELSE IF Interface_get_slope_raises(D.interfaces[cur.interface]) # "none"
    THEN Raise(D, Interface_get_slope_raises(D.interfaces[cur.interface]))
    ELSE IF state_is_queued_raises(fd, below) THEN Raise(D, "ValueError")
    ELSE IF (posterior_capacity > prior_capacity
               \/ float_isclose(posterior_capacity, prior_capacity))
            /\ (~state_is_queued(fd, below) \/ State__eq(above, below))
    THEN IF ~float_isclose(above.density, below.density)
         THEN IF get_interface_slope_raises(fd, above.density, below.density)
              THEN Raise(D, "ValueError")
              ELSE Return(add_interface(D, Interface__init(cur.point,
                              get_interface_slope(fd, above.density, below.density),
                              above, below, cur.point, NoPoint)), FALSE)
         ELSE Return(D, FALSE)
    ELSE capacity_drop(D, fd, cur, above, below, posterior_capacity,
                       Interface_get_slope(D.interfaces[cur.interface]))

\* event.posterior_capacity with its default, whatever flow arrives
posterior_capacity_of_supplied(fd, cur, below) ==
    IF cur.posterior_capacity = AnyCapacity THEN get_max_state(fd).flow
    ELSE cur.posterior_capacity

\* event.posterior_capacity with its default, capped by the flow arriving
posterior_capacity_of(fd, cur, below) ==
    IF ~state_is_queued(fd, below)
    THEN Min(IF cur.posterior_capacity = AnyCapacity THEN get_max_state(fd).flow
             ELSE cur.posterior_capacity,
             below.flow)
    ELSE IF cur.posterior_capacity = AnyCapacity THEN get_max_state(fd).flow
         ELSE cur.posterior_capacity

\* _handle_capacity_event once above and below are resolved
capacity_between(D, fd, cur, above, below) ==
    capacity_change(D, fd, cur, above, below,
                    IF cur.prior_capacity = AnyCapacity THEN below.flow ELSE cur.prior_capacity,
                    posterior_capacity_of(fd, cur, below))

\* ra and rb are what _resolve_state gave above and below the event
capacity_resolved(D, fd, cur, ra, rb) ==
    IF ra.raises \/ rb.raises THEN Raise(D, "AssertionError")
    ELSE capacity_between(D, fd, cur, ra.state, rb.state)

\* _handle_capacity_event without the test of lines 318-319
handle_capacity_event_anywhere(D, fd, cur) ==
    IF D.err # "none" THEN D
    ELSE capacity_resolved(D, fd, cur,
                           resolve_state(D.interfaces, fd, cur.point, FALSE),
                           resolve_state(D.interfaces, fd, cur.point, TRUE))

\* _handle_capacity_event(cur), above and below left to be resolved
handle_capacity_event(D, fd, cur) ==
    IF D.err # "none" THEN D
    ELSE IF get_pos_at_time_is_None(D.interfaces[cur.interface], cur.point.time)
    THEN Return(D, FALSE)
    ELSE capacity_resolved(D, fd, cur,
                           resolve_state(D.interfaces, fd, cur.point, FALSE),
                           resolve_state(D.interfaces, fd, cur.point, TRUE))

\* interface i replaced by the result c of its add_cutoff; a ValueError is
\* not caught
set_cutoff(D, i, c) ==
    IF c.raises THEN Raise(D, "ValueError")
    ELSE [D EXCEPT !.interfaces[i] = c.iface]

\* a handler that cuts none of the interfaces it met
cutoff_upper_each_none(D, ids, j, point, skip) == D

\* interface.add_cutoff(upper=point) for each of ids from the j-th on, except
\* skip
RECURSIVE cutoff_upper_each(_, _, _, _, _)
cutoff_upper_each(D, ids, j, point, skip) ==
    IF D.err # "none" \/ j > Len(ids) THEN D
    ELSE IF ids[j] = skip THEN cutoff_upper_each(D, ids, j + 1, point, skip)
    ELSE cutoff_upper_each(
             set_cutoff(D, ids[j], add_cutoff(D.interfaces[ids[j]], NoPoint, point)),
             ids, j + 1, point, skip)

\* index in ids of the first interface with the greatest (sign = 1) or the
\* least (sign = -1) slope
extreme_slope(ifaces, ids, sign) ==
    CHOOSE j \in 1..Len(ids) :
        /\ \A k \in 1..Len(ids) : sign * ifaces[ids[k]].slope <= sign * ifaces[ids[j]].slope
        /\ \A k \in 1..(j - 1) : ifaces[ids[k]].slope # ifaces[ids[j]].slope

\* the interfaces of cur that exist at its time
live_interfaces(D, cur) ==
    SelectSeq(cur.interfaces,
              LAMBDA i : ~get_pos_at_time_is_None(D.interfaces[i], cur.point.time))

\* lines 488-500: every interface of ids cut at point, a ValueError being
\* caught and the interface left as it is
cutoff_upper_caught(D, ids, point) ==
    [D EXCEPT !.ret = FALSE,
              !.interfaces = [i \in 1..Len(D.interfaces) |->
                                IF InSeq(i, ids)
                                   /\ ~add_cutoff(D.interfaces[i], NoPoint, point).raises
                                THEN add_cutoff(D.interfaces[i], NoPoint, point).iface
                                ELSE D.interfaces[i]]]

\* lines 502-537: the new interface between above and below, D1 holding the
\* cut interfaces
intersection_created(D1, fd, cur, no_new_interface, above, below) ==
    IF no_new_interface THEN D1
    ELSE IF above = NoState \/ below = NoState THEN Raise(D1, "AssertionError")
    ELSE IF ~State__eq(above, below)
    THEN IF get_interface_slope_raises(fd, above.density, below.density)
         THEN Raise(D1, "ValueError")
         ELSE Return(add_interface(D1, Interface__init(cur.point,
                         get_interface_slope(fd, above.density, below.density),
                         above, below, cur.point, NoPoint)), TRUE)
    ELSE D1

\* _handle_intersection_event after the index entry is popped (D0), ids being
\* the interfaces that exist at the time of the event
intersection_live(D0, fd, cur, force, ids) ==
    IF ~force /\ \E j \in 1..Len(cur.interfaces) : D0.interfaces[cur.interfaces[j]].user
    THEN Raise(D0, "AssertionError")
    ELSE IF Len(ids) <= 1 THEN Return(D0, FALSE)
    ELSE intersection_created(
             cutoff_upper_caught(D0, ids, cur.point), fd, cur,
             \E j \in 1..Len(ids) : add_cutoff(D0.interfaces[ids[j]], NoPoint, cur.point).raises,
             D0.interfaces[ids[extreme_slope(D0.interfaces, ids, -1)]].above,
             D0.interfaces[ids[extreme_slope(D0.interfaces, ids, 1)]].below)

\* self.intersections.pop(cur.point), k being the place of the point
intersection_popped(D, fd, cur, force, k) ==
    IF ~force /\ k = 0 THEN Raise(D, "KeyError")
    ELSE intersection_live(IF force THEN D ELSE [D EXCEPT !.intersections = dict_pop(@, k)],
                           fd, cur, force, live_interfaces(D, cur))

\* _handle_intersection_event(cur, force)
handle_intersection_event(D, fd, cur, force) ==
    IF D.err # "none" THEN D
    ELSE IF Len(cur.interfaces) < 2 THEN Raise(D, "AssertionError")
    ELSE intersection_popped(D, fd, cur, force, dict_find(D.intersections, cur.point, 1))

\* the capacity event made without the bottleneck value of the augmenter
truncation_unresolved_cut_any(D, fd, augs, cur, c) ==
    IF c.raises THEN Raise(D, "ValueError")
    ELSE handle_capacity_event(
           [D EXCEPT !.interfaces[cur.user_interface] = c.iface], fd,
           CapacityEvent(cur.point, cur.user_interface, AnyCapacity, AnyCapacity))

\* the branch of _handle_truncation_event for a user interface without
\* states, c being the user interface cut from below
truncation_unresolved_cut(D, fd, augs, cur, c) ==
    IF c.raises THEN Raise(D, "ValueError")
    ELSE handle_capacity_event(
           [D EXCEPT !.interfaces[cur.user_interface] = c.iface], fd,
           CapacityEvent(cur.point, cur.user_interface, AnyCapacity,
                         augs[D.interfaces[cur.user_interface].augment].bottleneck_capacity))

truncation_unresolved(D, fd, augs, cur) ==
    truncation_unresolved_cut(D, fd, augs, cur,
                              add_cutoff(D.interfaces[cur.user_interface], cur.point, NoPoint))

\* lines 600-603: the user interface cut from above
truncation_upper_cut(D3, cur) ==
    IF D3.err # "none" THEN D3
    ELSE set_cutoff(D3, cur.user_interface,
                    add_cutoff(D3.interfaces[cur.user_interface], NoPoint, cur.point))

\* lines 596-599: D2 is the drawer after the forced intersection event
truncation_merged(D2, cur, ids) ==
    IF D2.err # "none" \/ ~D2.ret THEN D2
    ELSE truncation_upper_cut(cutoff_upper_each(D2, ids, 1, cur.point, 0), cur)

\* the user interface keeping its states once its copy is made
truncation_resolved_cut_kept(D, fd, cur, ids, c) ==
    IF c.raises
    THEN Raise([D EXCEPT !.interfaces = Append(@, D.interfaces[cur.user_interface])],
               "ValueError")
    ELSE truncation_merged(
             handle_intersection_event(
                 [D EXCEPT !.interfaces =
                     Append([@ EXCEPT ![cur.user_interface] = c.iface],
                            D.interfaces[cur.user_interface])],
                 fd,
                 IntersectionEvent(cur.point, <<Len(D.interfaces) + 1>> \o cur.interfaces),
                 TRUE),
             cur, ids)

\* lines 587-595: c is the copy of the user interface cut from below
truncation_resolved_cut(D, fd, cur, ids, c) ==
    IF c.raises
    THEN Raise([D EXCEPT !.interfaces = Append(@, D.interfaces[cur.user_interface])],
               "ValueError")
    ELSE truncation_merged(
             handle_intersection_event(
                 [D EXCEPT !.interfaces =
                     Append([@ EXCEPT ![cur.user_interface] =
                                [c.iface EXCEPT !.above = NoState, !.below = NoState]],
                            D.interfaces[cur.user_interface])],
                 fd,
                 IntersectionEvent(cur.point, <<Len(D.interfaces) + 1>> \o cur.interfaces),
                 TRUE),
             cur, ids)

\* the branch of _handle_truncation_event for a user interface with states
truncation_resolved(D, fd, cur, ids) ==
    truncation_resolved_cut(D, fd, cur, ids,
                            add_cutoff(D.interfaces[cur.user_interface], cur.point, NoPoint))

\* _handle_truncation_event from line 575 on, D1 holding the cut interfaces
truncation_branch(D1, fd, augs, cur, ids) ==
    IF D1.err # "none" THEN D1
    ELSE IF ~has_valid_states(D1.interfaces[cur.user_interface])
    THEN truncation_unresolved(D1, fd, augs, cur)
    ELSE truncation_resolved(D1, fd, cur, ids)

\* _handle_truncation_event after the index entry is popped (D0)
truncation_live(D0, fd, augs, cur, ids) ==
    IF get_pos_at_time_is_None(D0.interfaces[cur.user_interface], cur.point.time) THEN D0
    ELSE IF Len(ids) = 0 THEN D0
    ELSE truncation_branch(cutoff_upper_each(D0, ids, 1, cur.point, cur.user_interface),
                           fd, augs, cur, ids)

\* self.truncations.pop(cur.point), k being the place of the point
truncation_popped(D, fd, augs, cur, k) ==
    IF k = 0 THEN Raise(D, "KeyError")
    ELSE truncation_live([D EXCEPT !.truncations = dict_pop(@, k), !.ret = FALSE],
                         fd, augs, cur, live_interfaces(D, cur))

\* _handle_truncation_event(cur)
handle_truncation_event(D, fd, augs, cur) ==
    IF D.err # "none" THEN D
    ELSE truncation_popped(D, fd, augs, cur, dict_find(D.truncations, cur.point, 1))

\* drawer.events.add(event) for a new event
events_add(D, event) ==
    [D EXCEPT !.evs = Append(@, event),
              !.events = SortedList_add(Append(D.evs, event), @, Len(D.evs) + 1)]

\* LineBottleneck.init after drawer._add_interface(cur): the start and end
\* events of the user interface cur are queued
LineBottleneck_events(D1, a, cur) ==
    IF D1.err # "none" THEN D1
    ELSE events_add(events_add(D1, CapacityEvent(a.start, cur, AnyCapacity,
                                                 a.bottleneck_capacity)),
                    CapacityEvent(a.end, cur, a.bottleneck_capacity, AnyCapacity))

\* LineBottleneck.init(drawer) of the n-th augmenter
LineBottleneck_init(D, a, n) ==
    IF D.err # "none" THEN D
    ELSE IF float_isclose(a.start.time, a.end.time) THEN D
    ELSE IF a.start.time >= 0
    THEN LineBottleneck_events(
             add_interface(D, UserInterface__init(a.start, dtPoint_get_slope(a.start, a.end),
                                                  n, a.start, a.end)),
             a, Len(D.interfaces) + 1)
    ELSE D

\* TrafficLight.init(self, simulation_time, events, interfaces) called as
\* augment.init(self) by _setup: the drawer is bound to simulation_time and
\* events and interfaces get no argument, so the call raises TypeError before
\* the body runs
TrafficLight_init(D, a, n) ==
    IF D.err # "none" THEN D ELSE Raise(D, "TypeError")

\* augment.init(self): the init of the class of the n-th augmenter
augment_init(D, a, n) ==
    IF "cycles" \in DOMAIN a THEN TrafficLight_init(D, a, n)
    ELSE LineBottleneck_init(D, a, n)

\* the loop of _setup over self.augments, from the n-th on
RECURSIVE init_augments(_, _, _)
init_augments(D, augs, n) ==
    IF D.err # "none" \/ n > Len(augs) THEN D
    ELSE init_augments(augment_init(D, augs[n], n), augs, n + 1)

\* the check of _setup after the augmenters are initialised
setup_check(D) ==
    IF D.err = "none" /\ Len(D.intersections) # 0 THEN Raise(D, "RuntimeError") ELSE D

\* _setup
setup(augs) ==
    setup_check(init_augments([interfaces |-> <<>>, evs |-> <<>>, events |-> <<>>,
                               intersections |-> <<>>, truncations |-> <<>>,
                               err |-> "none", ret |-> FALSE], augs, 1))

-----------------------------------------------------------------------------
(* Inputs *)

MaxAug == 3             \* augmenters per run
MaxDisable == 3         \* queue positions an augmenter may soft-delete

Diagram(init_density) ==
    [freeflow_speed |-> 2 * Scale, jam_density |-> Scale \div 10,
     trafficwave_speed |-> Scale, init_density |-> init_density]

Diagrams == {Diagram(6000), Diagram(20000)}

\* free-flow speed 2, jam density 5, wave speed 1, initial density 1
TrafficLightDiagram ==
    [freeflow_speed |-> 2 * Scale, jam_density |-> 5 * Scale,
     trafficwave_speed |-> Scale, init_density |-> Scale]

TrafficLight(pos, cycles, blocking_states) ==
    [pos |-> pos, cycles |-> cycles, blocking_states |-> blocking_states,
     init_state |-> 0, delay |-> 0]

\* one traffic light at position 10, green for 5 and red for 5
TrafficLightScenario == <<TrafficLight(10 * Scale, <<5 * Scale, 5 * Scale>>, <<FALSE, TRUE>>)>>

\* the horizon run() is given in that scenario
TrafficLightHorizon == 20 * Scale

LineBottleneck(t0, p0, t1, p1, cap) ==
    [start |-> Pt(t0, p0), end |-> Pt(t1, p1), bottleneck_capacity |-> cap]

HorizontalBottleneck(pos, time_start, time_end, cap) ==
    LineBottleneck(time_start, pos, time_end, pos, cap)

\* the augmenters a run may be given: two stop-and-go bottlenecks, two
\* full-capacity bottlenecks a tolerance apart, a moving bottleneck that crosses
\* the first, a full-capacity moving one that crosses the third, and a
\* bottleneck that closes just below that crossing
Catalog ==
    <<HorizontalBottleneck(480000, 0, 240000, 0),
      HorizontalBottleneck(360000, 120000, 600000, 0),
      HorizontalBottleneck(720000, 0, 480000, 20000),
      HorizontalBottleneck(720020, 0, 480000, 20000),
      LineBottleneck(0, 420000, 240000, 540000, 6000),
      LineBottleneck(0, 659991, 240000, 779991, 20000),
      HorizontalBottleneck(719964, 120018, 480000, 0)>>

RECURSIVE Ascending(_)
Ascending(S) ==
    IF S = {} THEN <<>>
    ELSE LET m == CHOOSE x \in S : \A y \in S : x <= y
         IN  <<Catalog[m]>> \o Ascending(S \ {m})

Reverse(s) == [i \in 1..Len(s) |-> s[Len(s) + 1 - i]]

\* two stop-and-go bottlenecks a tolerance apart in position, the lower one
\* closing at the instant the upper one opens
Staggered ==
    <<HorizontalBottleneck(600010, 240000, 360000, 0),
      HorizontalBottleneck(599982, 120000, 240000, 0)>>

\* one bottleneck engaged from time 0 to time 20, at a capacity between the
\* flow of either initial state and the greatest flow of the diagram
WholeHorizon == <<HorizontalBottleneck(900000, 0, 6000000, 15000)>>

\* the augmenter lists: up to MaxAug augmenters of the catalog, in its order
\* or in the reverse order, the staggered pair and the whole-horizon bottleneck
Scenarios ==
    UNION {{Ascending(S), Reverse(Ascending(S))} :
           S \in {T \in SUBSET (1..Len(Catalog)) : Cardinality(T) \in 1..MaxAug}}
    \cup {Staggered, WholeHorizon}

-----------------------------------------------------------------------------
(* run() *)

Drawer ==
    [interfaces |-> interfaces, evs |-> evs, events |-> events,
     intersections |-> intersections, truncations |-> truncations,
     err |-> "none", ret |-> FALSE]

Commit(D) ==
    /\ interfaces' = D.interfaces
    /\ evs' = D.evs
    /\ events' = D.events
    /\ intersections' = D.intersections
    /\ truncations' = D.truncations
    /\ err' = D.err

ProbeIdle == [op |-> "none"]

Init ==
    /\ pc = "start"
    /\ err = "none"
    /\ \/ diagram \in Diagrams /\ augments \in Scenarios
       \/ diagram = TrafficLightDiagram /\ augments = TrafficLightScenario
    /\ disable \in 0..MaxDisable
    /\ interfaces = <<>>
    /\ evs = <<>>
    /\ events = <<>>
    /\ pos_queue = <<>>
    /\ intersections = <<>>
    /\ truncations = <<>>
    /\ batch_taken = <<>>
    /\ handled = <<>>
    /\ batch_log = <<>>
    /\ probe = ProbeIdle

\* event.disabled = True on the event at place n of the queue, if there is one
soft_delete(D, n) ==
    IF D.err = "none" /\ n >= 1 /\ n <= Len(D.events)
    THEN [D EXCEPT !.evs[D.events[n]].disabled = TRUE]
    ELSE D

\* run() enters its main loop unless _setup raised
Entered(D) ==
    /\ Commit(D)
    /\ pc' = IF D.err = "none" THEN "loop" ELSE "failed"

\* run() up to the main loop: _setup, after which an augmenter that kept the
\* queue may have soft-deleted one of the events in it
Setup ==
    /\ pc = "start"
    /\ Entered(soft_delete(setup(augments), disable))
    /\ UNCHANGED <<diagram, augments, disable, pos_queue, batch_taken, handled, batch_log, probe>>

\* the classes of run() with capacity events put before the truncation events
\* on an unresolved user interface
batch_class_capacity_early(x, ifaces) ==
    IF x.type = "capacity" THEN 2
    ELSE IF x.type = "intersection" THEN 1
    ELSE IF has_valid_states(ifaces[x.user_interface]) THEN 1 ELSE 3

\* the class given to event x when it is taken into pos_queue
batch_class(x, ifaces) ==
    IF x.type = "capacity" THEN 3
    ELSE IF x.type = "intersection" THEN 1
    ELSE IF has_valid_states(ifaces[x.user_interface]) THEN 1 ELSE 2

\* the inner loop of run() that fills pos_queue: [events, pos_queue]
RECURSIVE take_batch(_, _, _, _, _)
take_batch(E, ifaces, q, pq, time) ==
    IF q = <<>> \/ ~float_isclose(E[q[1]].point.time, time)
    THEN [events |-> q, pos_queue |-> pq]
    ELSE take_batch(E, ifaces, Tail(q),
                    pos_queue_add(E, pq, <<batch_class(E[q[1]], ifaces),
                                           E[q[1]].point.position, q[1]>>),
                    time)

\* b is what the inner loop left of the queue and put into pos_queue
Taken(b) ==
    /\ events' = b.events
    /\ pos_queue' = b.pos_queue
    /\ batch_taken' = [i \in 1..(Len(events) - Len(b.events)) |->
                         [id |-> events[i], type |-> evs[events[i]].type,
                          resolved |-> evs[events[i]].type = "truncation"
                              /\ has_valid_states(interfaces[evs[events[i]].user_interface])]]

TakeBatch ==
    /\ pc = "loop"
    /\ events # <<>>
    /\ Taken(take_batch(evs, interfaces, events, <<>>, evs[events[1]].point.time))
    /\ batch_log' = <<>>
    /\ pc' = "batch"
    /\ UNCHANGED <<err, diagram, augments, disable, interfaces, evs, intersections,
                   truncations, handled, probe>>

\* what every step that pops pos_queue does besides handling the event
Popped(D) ==
    /\ pos_queue' = Tail(pos_queue)
    /\ handled' = Append(handled, pos_queue[1][3])
    /\ batch_log' = Append(batch_log, pos_queue[1][3])
    /\ pc' = IF D.err # "none" THEN "failed"
             ELSE IF Tail(pos_queue) = <<>> THEN "loop" ELSE "batch"
    /\ Commit(D)
    /\ UNCHANGED <<diagram, augments, disable, batch_taken, probe>>

SkipDisabled ==
    /\ pc = "batch"
    /\ pos_queue # <<>>
    /\ evs[pos_queue[1][3]].disabled
    /\ Popped(Drawer)

HandleCapacity ==
    /\ pc = "batch"
    /\ pos_queue # <<>>
    /\ ~evs[pos_queue[1][3]].disabled
    /\ evs[pos_queue[1][3]].type = "capacity"
    /\ Popped(handle_capacity_event(Drawer, diagram, evs[pos_queue[1][3]]))

HandleIntersection ==
    /\ pc = "batch"
    /\ pos_queue # <<>>
    /\ ~evs[pos_queue[1][3]].disabled
    /\ evs[pos_queue[1][3]].type = "intersection"
    /\ Popped(handle_intersection_event(Drawer, diagram, evs[pos_queue[1][3]], FALSE))

HandleTruncation ==
    /\ pc = "batch"
    /\ pos_queue # <<>>
    /\ ~evs[pos_queue[1][3]].disabled
    /\ evs[pos_queue[1][3]].type = "truncation"
    /\ Popped(handle_truncation_event(Drawer, diagram, augments, evs[pos_queue[1][3]]))

\* `while self.events` finds the queue empty: run() returns
LeaveLoop ==
    /\ pc = "loop"
    /\ events = <<>>
    /\ pc' = "done"
    /\ UNCHANGED <<err, diagram, augments, disable, interfaces, evs, events, pos_queue,
                   intersections, truncations, batch_taken, handled, batch_log, probe>>

Next ==
    \/ Setup
    \/ TakeBatch
    \/ SkipDisabled
    \/ HandleCapacity
    \/ HandleIntersection
    \/ HandleTruncation
    \/ LeaveLoop

Spec == Init /\ [][Next]_vars

-----------------------------------------------------------------------------
(* run() called a second time on the same drawer *)

\* the containers of the previous run left in place of the interface list
reset_keeping_interfaces(D) ==
    [interfaces |-> D.interfaces, evs |-> <<>>, events |-> <<>>,
     intersections |-> <<>>, truncations |-> <<>>, err |-> "none", ret |-> FALSE]

\* the assignments at the head of _setup: whatever the drawer held, the queue,
\* the interface list and the two indices are new and empty
reset(D) ==
    [interfaces |-> <<>>, evs |-> <<>>, events |-> <<>>,
     intersections |-> <<>>, truncations |-> <<>>, err |-> "none", ret |-> FALSE]

\* _setup on a drawer that has run before
setup_again(D, augs) == setup_check(init_augments(reset(D), augs, 1))

\* run() is called again once the first call has returned or raised; pos_queue
\* is a local of run() and so is new as well.  probe keeps what the first call
\* left behind.
Rerun ==
    /\ pc \in {"done", "failed"}
    /\ probe = ProbeIdle
    /\ probe' = [op |-> "rerun", interfaces |-> interfaces, err |-> err]
    /\ Entered(soft_delete(setup_again(Drawer, augments), disable))
    /\ pos_queue' = <<>>
    /\ batch_taken' = <<>>
    /\ handled' = <<>>
    /\ batch_log' = <<>>
    /\ UNCHANGED <<diagram, augments, disable>>

RerunNext ==
    \/ Next
    \/ Rerun

RerunSpec == Init /\ [][RerunNext]_vars

-----------------------------------------------------------------------------
(* _resolve_state called on the drawer after run() has returned *)

QueryTimes == {0, 120000, 237000, 480000}
QueryPositions == {300000, 480000, 600000, 640000, 900000}

\* the points asked about: a grid, and the point of every event of the run
QueryPoints ==
    {Pt(t, p) : t \in QueryTimes, p \in QueryPositions}
        \cup {evs[id].point : id \in 1..Len(evs)}

\* a _resolve_state that gives the unhandled user interfaces it passes the
\* default state
resolve_state_filling(D, fd, point, below) ==
    [D EXCEPT !.interfaces =
        [i \in 1..Len(D.interfaces) |->
            IF D.interfaces[i].above = NoState
            THEN [D.interfaces[i] EXCEPT !.above = get_initial_state(fd),
                                         !.below = get_initial_state(fd)]
            ELSE D.interfaces[i]]]

\* what a call of _resolve_state leaves of the drawer: the method assigns to
\* its locals scale, res, min_dist and cur only
resolve_state_effect(D, fd, point, below) == D

\* the caller's record of a call: the point, the side and what came back
Resolved(point, below, r, calls) ==
    [op |-> "resolved", point |-> point, below |-> below, calls |-> calls,
     raises |-> r.raises, state |-> r.state]

\* a first call of _resolve_state(point, below)
Query ==
    /\ pc = "done"
    /\ probe = ProbeIdle
    /\ \E point \in QueryPoints, below \in BOOLEAN :
          /\ probe' = Resolved(point, below,
                               resolve_state(interfaces, diagram, point, below), 1)
          /\ Commit(resolve_state_effect(Drawer, diagram, point, below))
    /\ pc' = "queried"
    /\ UNCHANGED <<diagram, augments, disable, pos_queue, batch_taken, handled, batch_log>>

\* a second call at the same point and side
QueryAgain ==
    /\ pc = "queried"
    /\ probe.op = "resolved"
    /\ probe.calls = 1
    /\ probe' = Resolved(probe.point, probe.below,
                         resolve_state(interfaces, diagram, probe.point, probe.below), 2)
    /\ Commit(resolve_state_effect(Drawer, diagram, probe.point, probe.below))
    /\ UNCHANGED <<pc, diagram, augments, disable, pos_queue, batch_taken, handled, batch_log>>

QueryNext ==
    \/ Next
    \/ Query
    \/ QueryAgain

QuerySpec == Init /\ [][QueryNext]_vars

-----------------------------------------------------------------------------
(* The comparisons of drawer_utils applied to events and points on their own *)

ProbeTimes == {0, 24, 48}
ProbePositions == {10, 20}
ProbePoints == {Pt(t, p) : t \in ProbeTimes, p \in ProbePositions}

ProbeEvents ==
    UNION {{TruncationEvent(p, 1, <<2>>), IntersectionEvent(p, <<1, 2>>),
            IntersectionEvent(p, <<1, 3>>), CapacityEvent(p, 1, AnyCapacity, 0)}
           : p \in ProbePoints}

PureInit ==
    /\ pc = "pure"
    /\ err = "none"
    /\ diagram = Diagram(0)
    /\ augments = <<>>
    /\ disable = 0
    /\ interfaces = <<>>
    /\ evs = <<>>
    /\ events = <<>>
    /\ pos_queue = <<>>
    /\ intersections = <<>>
    /\ truncations = <<>>
    /\ batch_taken = <<>>
    /\ handled = <<>>
    /\ batch_log = <<>>
    /\ \E a, b, c \in ProbeEvents : probe = [op |-> "input", a |-> a, b |-> b, c |-> c]

\* a < a, a < b, b < a, b < c, a < c and a == b evaluated on the three events
CompareEvents ==
    /\ pc = "pure"
    /\ probe.op = "input"
    /\ probe' = [op |-> "compared", a |-> probe.a, b |-> probe.b, c |-> probe.c,
                 lt_aa |-> Event__lt(probe.a, probe.a),
                 lt_ab |-> Event__lt(probe.a, probe.b),
                 lt_ba |-> Event__lt(probe.b, probe.a),
                 lt_bc |-> Event__lt(probe.b, probe.c),
                 lt_ac |-> Event__lt(probe.a, probe.c),
                 eq_ab |-> Event__eq(probe.a, probe.b)]
    /\ UNCHANGED engine_vars

\* p == q, hash(p) and hash(q) evaluated on the points of the first two events
HashPoints ==
    /\ pc = "pure"
    /\ probe.op = "input"
    /\ probe' = [op |-> "hashed", p |-> probe.a.point, q |-> probe.b.point,
                 eq |-> dtPoint__eq(probe.a.point, probe.b.point),
                 hash_p |-> dtPoint__hash(probe.a.point),
                 hash_q |-> dtPoint__hash(probe.b.point)]
    /\ UNCHANGED engine_vars

PureNext ==
    \/ CompareEvents
    \/ HashPoints

PureSpec == PureInit /\ [][PureNext]_vars

-----------------------------------------------------------------------------
(* The lookups of the fundamental diagram applied on their own *)

\* the diagrams the constructor accepts with a free-flow speed of 0.75 or 2,
\* a wave speed of 0.5 or 1 and a jam density of 0.1 or 5
RoundTripDiagrams ==
    {fd \in [freeflow_speed : {(3 * Scale) \div 4, 2 * Scale},
             jam_density : {Scale \div 10, 5 * Scale},
             trafficwave_speed : {Scale \div 2, Scale}, init_density : {0}] :
        FundamentalDiagram_valid(fd)}

\* densities of fd: its ends, the capacity density, the middle of each branch
\* and the densities up to about twice the tolerance either side of the
\* capacity density
RoundTripDensities(fd) ==
    {0, capacity_density(fd) \div 2, (capacity_density(fd) + fd.jam_density) \div 2,
     fd.jam_density}
    \cup {capacity_density(fd) + k * 14 : k \in -4..4}

\* interfaces as the drawer makes them: one that starts at a point with one of
\* three slopes and has no end, and a horizontal user interface of a
\* bottleneck that lasts 0.4
PairTimes == {120000, 240000}
PairPositions == {360000, 480000}
PairSlopes == {0 - Scale, Scale \div 2, 2 * Scale}

PairInterfaces ==
    {Interface__init(Pt(t, p), m, NoState, NoState, Pt(t, p), NoPoint) :
        t \in PairTimes, p \in PairPositions, m \in PairSlopes}
    \cup {UserInterface__init(Pt(t, p), 0, 1, Pt(t, p), Pt(t + 120000, p)) :
             t \in PairTimes, p \in PairPositions}
    \cup {UserInterface__init(Pt(t, 0), 0, 1, Pt(t, 0), Pt(t + 480000, 0)) : t \in PairTimes}

\* the error, in units of the last place kept, that the rounding of the
\* floating-point operations may leave in a computed time
RoundingErrors == {-1, 0, 1}

FunctionInit ==
    /\ pc = "pure"
    /\ err = "none"
    /\ augments = <<>>
    /\ disable = 0
    /\ interfaces = <<>>
    /\ evs = <<>>
    /\ events = <<>>
    /\ pos_queue = <<>>
    /\ intersections = <<>>
    /\ truncations = <<>>
    /\ batch_taken = <<>>
    /\ handled = <<>>
    /\ batch_log = <<>>
    /\ \/ /\ diagram \in RoundTripDiagrams
          /\ \E d \in RoundTripDensities(diagram) : probe = [op |-> "density", density |-> d]
       \/ /\ diagram = Diagram(0)
          /\ \E a, b \in PairInterfaces :
                /\ ~float_isclose(a.slope, b.slope)
                /\ probe = [op |-> "pair", a |-> a, b |-> b]

\* get_state_by_flow(get_state(density).flow, left) with left chosen by the
\* side of the density
RoundTrip ==
    /\ pc = "pure"
    /\ probe.op = "density"
    /\ ~get_state_raises(diagram, probe.density)
    /\ probe' = [op |-> "roundtrip", density |-> probe.density,
                 left |-> probe.density <= capacity_density(diagram),
                 state |-> get_state_by_flow(diagram, get_state(diagram, probe.density).flow,
                                             probe.density <= capacity_density(diagram))]
    /\ UNCHANGED engine_vars

\* a.intersection(b) and b.intersection(a), each with its own rounding
Intersect ==
    /\ pc = "pure"
    /\ probe.op = "pair"
    /\ \E ra, rb \in RoundingErrors :
          probe' = [op |-> "intersected", a |-> probe.a, b |-> probe.b,
                    ab |-> intersection_rounded(probe.a, probe.b, ra),
                    ba |-> intersection_rounded(probe.b, probe.a, rb)]
    /\ UNCHANGED engine_vars

FunctionNext ==
    \/ RoundTrip
    \/ Intersect

FunctionSpec == FunctionInit /\ [][FunctionNext]_vars

-----------------------------------------------------------------------------
(* Properties *)

Pending == events \o [i \in 1..Len(pos_queue) |-> pos_queue[i][3]]

Occurrences(x, a) == Cardinality({i \in 1..Len(a) : a[i] = x})

\* the user interface the n-th augmenter inserts
InsertedInterface(n) ==
    UserInterface__init(augments[n].start,
                        dtPoint_get_slope(augments[n].start, augments[n].end),
                        n, augments[n].start, augments[n].end)

\* two of the inserted user interfaces meet at a point that is not an endpoint
\* of the one inserted later
SetupCrossing ==
    \E i, j \in 1..Len(augments) :
        /\ i < j
        /\ LET r == intersection(InsertedInterface(j), InsertedInterface(i))
           IN  /\ ~r.raises
               /\ r.pt # NoPoint
               /\ ~has_endpoint(InsertedInterface(j), r.pt)

\* C1: for augmenters that keep the augmenter contract (their user interfaces
\* do not cross), whenever run() has left its main loop the event queue is
\* empty.
C1_LeavesLoopWithEmptyQueue ==
    (pc \in {"done", "failed"} /\ ~SetupCrossing) =>
        (events = <<>> /\ pos_queue = <<>>)

\* C2: between two event handlers and after run() returns, every interface has
\* above and below both set or both unset, and only user interfaces are unset.
C2_StatesBothOrNeither ==
    pc \in {"loop", "batch", "done"} =>
        \A i \in 1..Len(interfaces) :
            /\ (interfaces[i].above = NoState) <=> (interfaces[i].below = NoState)
            /\ (interfaces[i].above = NoState) => interfaces[i].user

C2_Witness ==
    /\ pc = "done"
    /\ \E i \in 1..Len(interfaces) :
          interfaces[i].user /\ interfaces[i].above = NoState /\ interfaces[i].below = NoState
    /\ \E i \in 1..Len(interfaces) :
          interfaces[i].user /\ interfaces[i].above # NoState /\ interfaces[i].below # NoState
    /\ \E i \in 1..Len(interfaces) :
          ~interfaces[i].user /\ interfaces[i].above # NoState /\ interfaces[i].below # NoState

\* the class an event of the open batch had when it was taken
TakenClass(id) ==
    LET r == CHOOSE r \in {batch_taken[i] : i \in 1..Len(batch_taken)} : r.id = id
    IN  IF r.type = "capacity" THEN 3
        ELSE IF r.type = "truncation" /\ ~r.resolved THEN 2
        ELSE 1

\* C3: within one batch, intersection events and truncation events on a
\* resolved user interface are handled before truncation events on an
\* unresolved one, and capacity events after all of them.
C3_BatchOrder ==
    \A i, j \in 1..Len(batch_log) :
        (i < j) => (TakenClass(batch_log[i]) <= TakenClass(batch_log[j]))

C3_Witness ==
    \E i, j \in 1..Len(batch_log) :
        /\ i < j
        /\ TakenClass(batch_log[i]) = 2
        /\ TakenClass(batch_log[j]) = 3

\* C4: Event.__lt__ is a strict total order: irreflexive, asymmetric,
\* transitive, and of two events that are not equal exactly one is less.
C4_StrictTotalOrder ==
    (probe.op = "compared") =>
        /\ ~probe.lt_aa
        /\ ~(probe.lt_ab /\ probe.lt_ba)
        /\ ((probe.lt_ab /\ probe.lt_bc) => probe.lt_ac)
        /\ (~probe.eq_ab => (probe.lt_ab \/ probe.lt_ba))

\* C5: every event added to the queue is taken from it and handled (or skipped
\* when disabled) exactly once: an event is never in two places, never handled
\* twice, and none is left when run() returns.
C5_HandledExactlyOnce ==
    /\ \A id \in 1..Len(evs) : Occurrences(id, Pending \o handled) = 1
    /\ (pc = "done") => \A id \in 1..Len(evs) : Occurrences(id, handled) = 1

C5_Witness ==
    /\ pc = "done"
    /\ \E id \in 1..Len(evs) : evs[id].type = "truncation"
    /\ \E id \in 1..Len(evs) : evs[id].type = "intersection"
    /\ \E id \in 1..Len(evs) : evs[id].disabled

\* C6: when user interfaces inserted during setup intersect one another,
\* run() fails at the end of setup, before any event is processed.
C6_FailFast ==
    (pc # "start" /\ SetupCrossing) =>
        (pc = "failed" /\ err = "RuntimeError" /\ handled = <<>>)

\* C7: the pending events hold at most one IntersectionEvent and at most one
\* TruncationEvent per meeting point, points equal within the tolerance being
\* one point, and no event lists an interface twice.
C7_OneEventPerPoint ==
    /\ \A m, n \in 1..Len(Pending) :
          (m # n /\ evs[Pending[m]].type = evs[Pending[n]].type
                 /\ evs[Pending[m]].type \in {"intersection", "truncation"})
          => ~dtPoint__eq(evs[Pending[m]].point, evs[Pending[n]].point)
    /\ \A m \in 1..Len(Pending) :
          \A k \in 1..Len(evs[Pending[m]].interfaces) :
              Occurrences(evs[Pending[m]].interfaces[k], evs[Pending[m]].interfaces) = 1

\* C8: two points equal under the tolerant equality have the same hash.
C8_EqualPointsSameHash ==
    (probe.op = "hashed" /\ probe.eq) => (probe.hash_p = probe.hash_q)

\* an event that was popped from pos_queue
WasPopped(id) == \E i \in 1..Len(handled) : handled[i] = id

\* C9: skipping a disabled event adds, cuts and relabels no interface and
\* schedules no event, and afterwards the run goes on as if the event had never
\* been scheduled: an interface that later meets at its point is never attached
\* to the skipped event.
C9_SkippedAsIfNeverScheduled ==
    [][/\ (Len(handled') = Len(handled) + 1 /\ evs[handled'[Len(handled')]].disabled)
           => UNCHANGED <<interfaces, evs, events, intersections, truncations>>
       /\ \A id \in 1..Len(evs) :
             (evs[id].disabled /\ WasPopped(id)) => (evs'[id] = evs[id])]_vars

\* C10: no interface is ever removed from the interface list: the list only
\* grows and every interface in it stays in its place as the same line.
C10_InterfacesNeverRemoved ==
    [][/\ Len(interfaces') >= Len(interfaces)
       /\ \A i \in 1..Len(interfaces) :
             /\ interfaces'[i].slope = interfaces[i].slope
             /\ interfaces'[i].user = interfaces[i].user
             /\ interfaces'[i].augment = interfaces[i].augment]_vars

C10_Witness ==
    /\ pc = "done"
    /\ \E i \in 1..Len(interfaces) : ~interfaces[i].user /\ interfaces[i].e1.time # Inf
    /\ \E i \in 1..Len(interfaces) :
          interfaces[i].user /\ interfaces[i].e0 # augments[interfaces[i].augment].start

\* run() has just finished _setup and taken no batch yet
AfterSetup == pc = "loop" /\ handled = <<>> /\ batch_taken = <<>>

\* C11: every run starts from reset state.  Right after _setup the interface
\* list holds exactly the user interfaces of the augmenters, one each and in
\* the order of the list, the intersection index is empty and the queue holds
\* exactly the events made in this setup; and a second run() on the same
\* drawer ends with the interface list and the outcome of the first.
C11_RerunFromFreshState ==
    /\ AfterSetup =>
          /\ Len(interfaces) = Len(augments)
          /\ \A n \in 1..Len(augments) : interfaces[n] = InsertedInterface(n)
          /\ intersections = <<>>
          /\ Len(evs) = 2 * Len(augments) + Len(truncations)
          /\ \A id \in 1..Len(evs) : Occurrences(id, events) = 1
    /\ (probe.op = "rerun" /\ pc \in {"done", "failed"}) =>
          (interfaces = probe.interfaces /\ err = probe.err)

C11_Witness ==
    /\ probe.op = "rerun"
    /\ pc = "done"
    /\ Len(interfaces) > Len(augments)
    /\ \E id \in 1..Len(evs) : evs[id].type = "truncation"

\* how far interface lies below the point (above it when below is FALSE) at
\* the time of the point plus EPS
side_distance(interface, point, below) ==
    (IF below THEN 1 ELSE -1)
        * (point.position - get_pos_at_time(interface, point.time + EPS))

\* interface has both states, exists at the time of the point plus EPS and
\* lies on the side asked for, further from the point than the tolerance
Qualifies(interface, point, below) ==
    /\ has_valid_states(interface)
    /\ ~get_pos_at_time_is_None(interface, point.time + EPS)
    /\ side_distance(interface, point, below) > ABS_TOL

\* the state of interface that faces a point on that side of it
Facing(interface, below) == IF below THEN interface.above ELSE interface.below

\* r, the result of _resolve_state(point, below), is the facing state of a
\* qualifying interface that is nearest to the point, or the initial state when
\* no interface qualifies
NearestFacing(r, point, below) ==
    /\ ~r.raises
    /\ IF \A i \in 1..Len(interfaces) : ~Qualifies(interfaces[i], point, below)
       THEN r.state = get_initial_state(diagram)
       ELSE \E i \in 1..Len(interfaces) :
               /\ Qualifies(interfaces[i], point, below)
               /\ r.state = Facing(interfaces[i], below)
               /\ \A j \in 1..Len(interfaces) :
                     Qualifies(interfaces[j], point, below)
                     => side_distance(interfaces[i], point, below)
                          <= side_distance(interfaces[j], point, below)

\* the capacity event run() is about to handle resolves the states at its point
ResolvesNext ==
    /\ pc = "batch"
    /\ pos_queue # <<>>
    /\ evs[pos_queue[1][3]].type = "capacity"
    /\ ~evs[pos_queue[1][3]].disabled
    /\ ~get_pos_at_time_is_None(interfaces[evs[pos_queue[1][3]].interface],
                                evs[pos_queue[1][3]].point.time)

\* as NearestFacing, with distances compared as the loop compares them: an
\* interface whose distance is within the tolerance of the least distance kept
\* so far counts as equally near, so the interface chosen is at most twice the
\* tolerance further from the point than the nearest one
NearestFacingWithinTolerance(r, point, below) ==
    /\ ~r.raises
    /\ IF \A i \in 1..Len(interfaces) : ~Qualifies(interfaces[i], point, below)
       THEN r.state = get_initial_state(diagram)
       ELSE \E i \in 1..Len(interfaces) :
               /\ Qualifies(interfaces[i], point, below)
               /\ r.state = Facing(interfaces[i], below)
               /\ \A j \in 1..Len(interfaces) :
                     Qualifies(interfaces[j], point, below)
                     => side_distance(interfaces[i], point, below)
                          <= side_distance(interfaces[j], point, below) + 2 * ABS_TOL

\* C12 as amended: _resolve_state returns the facing state of an interface
\* with both states that exists at the query time plus EPS, lies on the side
\* asked for and is nearest to the point up to the tolerance, and the initial
\* state when there is none: for the calls made after run(), and for the
\* calls a capacity event makes.
C12_NearestWithinTolerance ==
    /\ (probe.op = "resolved") =>
          NearestFacingWithinTolerance([raises |-> probe.raises, state |-> probe.state],
                                       probe.point, probe.below)
    /\ ResolvesNext =>
          \A below \in BOOLEAN :
              NearestFacingWithinTolerance(resolve_state(interfaces, diagram,
                                                         evs[pos_queue[1][3]].point, below),
                                           evs[pos_queue[1][3]].point, below)

\* C12: _resolve_state returns the facing state of the interface with both
\* states that exists at the query time plus EPS and is nearest to the point
\* on the side asked for, and the initial state when there is none: for the
\* calls made after run(), and for the calls a capacity event makes.
C12_NearestResolvedInterface ==
    /\ (probe.op = "resolved") =>
          NearestFacing([raises |-> probe.raises, state |-> probe.state],
                        probe.point, probe.below)
    /\ ResolvesNext =>
          \A below \in BOOLEAN :
              NearestFacing(resolve_state(interfaces, diagram,
                                          evs[pos_queue[1][3]].point, below),
                            evs[pos_queue[1][3]].point, below)

C12_Witness ==
    /\ probe.op = "resolved"
    /\ Cardinality({i \in 1..Len(interfaces) :
                        Qualifies(interfaces[i], probe.point, probe.below)}) >= 2
    /\ \E i \in 1..Len(interfaces) :
          /\ interfaces[i].above # NoState
          /\ ~Qualifies(interfaces[i], probe.point, probe.below)
          /\ ~get_pos_at_time_is_None(interfaces[i], probe.point.time + EPS)
    /\ probe.state # get_initial_state(diagram)

HandlesCapacity(e) ==
    /\ Len(handled') = Len(handled) + 1
    /\ e = evs[handled'[Len(handled')]]
    /\ e.type = "capacity"
    /\ ~e.disabled

\* the states of the interfaces the step has added that neither of the states
\* above and below the event point had before
NewStates(above, below) ==
    {s \in UNION {{interfaces'[n].above, interfaces'[n].below} :
                     n \in (Len(interfaces) + 1)..Len(interfaces')} :
        ~State__eq(s, above) /\ ~State__eq(s, below)}

\* the posterior capacity in effect at event e reached in state below: the
\* one supplied, the greatest flow of the diagram when none is, and no more
\* than the flow that arrives unless that is queued
EffectivePosterior(e, below) == posterior_capacity_of(diagram, e, below)

Handles(e) ==
    /\ Len(handled') = Len(handled) + 1
    /\ e = evs[handled'[Len(handled')]]
    /\ ~e.disabled

\* the handler of e cuts one of the interfaces of e at the point of e, and
\* the point is not on the line of that interface
CutsOffLine(e) ==
    /\ e.type \in {"intersection", "truncation"}
    /\ (e.type = "intersection") =>
          (Len(live_interfaces(Drawer, e)) >= 2 /\ dict_find(intersections, e.point, 1) # 0)
    /\ (e.type = "truncation") =>
          (/\ dict_find(truncations, e.point, 1) # 0
           /\ ~get_pos_at_time_is_None(interfaces[e.user_interface], e.point.time))
    /\ \E j \in 1..Len(live_interfaces(Drawer, e)) :
          /\ (e.type = "truncation") => (live_interfaces(Drawer, e)[j] # e.user_interface)
          /\ off_line(interfaces[live_interfaces(Drawer, e)[j]],
                      new_bound(interfaces[live_interfaces(Drawer, e)[j]], e.point))

\* C15: a cutoff at a point off the line of the interface ends run() with an
\* error; no handler goes on after it.
C15_CutoffErrorIsFatal ==
    [][\A id \in 1..Len(evs) :
          (Handles(evs[id]) /\ CutsOffLine(evs[id])) => (pc' = "failed")]_vars

\* the interface whose capacity event the handling of e runs
\* _handle_capacity_event for: that of a capacity event, the user interface
\* of a truncation event while it has no states, and 0 for any other event
Originating(e) ==
    IF e.type = "capacity" THEN e.interface
    ELSE IF e.type = "truncation" /\ ~has_valid_states(interfaces[e.user_interface])
    THEN e.user_interface
    ELSE 0

\* C16: when the handling of a capacity event, popped from the queue or made
\* of a truncation event, derives an interface whose slope equals, within the
\* tolerance, the slope of the interface the event belongs to, run() fails.
C16_EqualSlopeIsFatal ==
    [][\A id \in 1..Len(evs) :
          (/\ Handles(evs[id])
           /\ Originating(evs[id]) # 0
           /\ \E n \in (Len(interfaces) + 1)..Len(interfaces') :
                 float_isclose(interfaces'[n].slope,
                               interfaces[Originating(evs[id])].slope))
          => (pc' = "failed" /\ err' = "RuntimeError")]_vars

\* run() has failed with RuntimeError on an event whose last derived
\* interface runs along the interface of the event
C16_Witness ==
    /\ pc = "failed"
    /\ err = "RuntimeError"
    /\ handled # <<>>
    /\ evs[handled[Len(handled)]].type \in {"capacity", "truncation"}
    /\ ~interfaces[Len(interfaces)].user
    /\ interfaces[Len(interfaces)].e0 = evs[handled[Len(handled)]].point
    /\ \E o \in 1..Len(interfaces) :
          /\ interfaces[o].user
          /\ o \in {evs[handled[Len(handled)]].interface,
                     evs[handled[Len(handled)]].user_interface}
          /\ float_isclose(interfaces[Len(interfaces)].slope, interfaces[o].slope)

\* run() was given one horizontal bottleneck that engages at time 0 at a
\* capacity above the flow of the initial state
OneBottleneckAboveInitialFlow ==
    /\ Len(augments) = 1
    /\ "start" \in DOMAIN augments[1]
    /\ augments[1].start.position = augments[1].end.position
    /\ augments[1].start.time = 0
    /\ augments[1].bottleneck_capacity > get_initial_state(diagram).flow

\* C17: a run with a single horizontal bottleneck engaged from the start at a
\* capacity above the flow of the initial state does not fail and never adds
\* an interface: from _setup on the interface list holds the user interface of
\* the bottleneck alone, without states.
C17_NoInterfaceAboveInitialFlow ==
    (OneBottleneckAboveInitialFlow /\ pc # "start") =>
        /\ pc # "failed"
        /\ Len(interfaces) = 1
        /\ interfaces[1].user
        /\ interfaces[1].above = NoState
        /\ interfaces[1].below = NoState

\* run() has returned for the bottleneck engaged for the whole horizon, both
\* of its capacity events handled
C17_Witness ==
    /\ pc = "done"
    /\ augments = WholeHorizon
    /\ OneBottleneckAboveInitialFlow
    /\ Len(handled) = 2
    /\ \A k \in 1..2 : ~evs[handled[k]].disabled

\* the red phases of traffic light a that begin within the horizon, counted
\* from the phase that begins at time in state state
RECURSIVE RedPhases(_, _, _, _)
RedPhases(a, simulation_time, time, state) ==
    IF time > simulation_time THEN 0
    ELSE (IF a.blocking_states[state + 1] THEN 1 ELSE 0)
         + RedPhases(a, simulation_time, time + a.cycles[state + 1],
                     (state + 1) % Len(a.cycles))

\* C18: in the traffic-light scenario run() returns, having queued at least
\* one capacity event per red phase of the horizon and created at least one
\* interface of its own per capacity event.
C18_TrafficLightScenario ==
    (/\ diagram = TrafficLightDiagram
     /\ augments = TrafficLightScenario
     /\ pc \in {"done", "failed"}) =>
        /\ pc = "done"
        /\ Cardinality({id \in 1..Len(evs) : evs[id].type = "capacity"})
              >= RedPhases(augments[1], TrafficLightHorizon, augments[1].delay,
                           augments[1].init_state)
        /\ Cardinality({i \in 1..Len(interfaces) : ~interfaces[i].user})
              >= Cardinality({id \in 1..Len(evs) : evs[id].type = "capacity"})

\* C19: for a diagram the constructor accepts and a density of it, the state
\* get_state_by_flow gives for the flow of get_state(density), on the branch of
\* the density, has that density within the tolerance.
C19_RoundTrip ==
    (probe.op = "roundtrip") => float_isclose(probe.state.density, probe.density)

\* C20: for two interfaces whose slopes differ by more than the tolerance,
\* a.intersection(b) and b.intersection(a) are both None or both points that
\* are equal within the tolerance.
C20_IntersectionSymmetric ==
    (probe.op = "intersected") =>
        /\ ~probe.ab.raises /\ ~probe.ba.raises
        /\ \/ probe.ab.pt = NoPoint /\ probe.ba.pt = NoPoint
           \/ /\ probe.ab.pt # NoPoint /\ probe.ba.pt # NoPoint
              /\ dtPoint__eq(probe.ab.pt, probe.ba.pt)

\* the interfaces this step hands to _add_interface: every one _setup inserts,
\* and every one without a bottleneck a handler appends
Registered(n) ==
    /\ n \in (Len(interfaces) + 1)..Len(interfaces')
    /\ pc = "start" \/ ~interfaces'[n].user

\* interface n, the new one, meets interface i at r.pt in the sense of
\* _add_interface: their slopes differ by more than the tolerance, r, which is
\* n.intersection(i), is a point, and the point is not an endpoint of n
MeetsAt(n, i, r) ==
    /\ ~float_isclose(interfaces'[n].slope, interfaces'[i].slope)
    /\ r.pt # NoPoint
    /\ ~has_endpoint(interfaces'[n], r.pt)

\* event e records the meeting of n with i at pt: a truncation event that
\* lists n if i is a user interface (the event of whichever user interface was
\* first met at that point), an intersection event that lists n and i if not
Records(e, n, i, pt) ==
    /\ dtPoint__eq(e.point, pt)
    /\ InSeq(n, e.interfaces)
    /\ IF interfaces'[i].user
       THEN e.type = "truncation"
       ELSE e.type = "intersection" /\ InSeq(i, e.interfaces)

\* the entries of the two indices of pending events
Indexed == intersections \o truncations

\* every meeting of n with an interface registered before it is recorded by
\* an event of the indices
MeetingsRecorded(n) ==
    \A i \in 1..(n - 1) :
        MeetsAt(n, i, intersection(interfaces'[n], interfaces'[i])) =>
            \E k \in 1..Len(Indexed') :
                Records(evs'[Indexed'[k].ev], n, i,
                        intersection(interfaces'[n], interfaces'[i]).pt)

\* every intersection or truncation event that lists n records a meeting of n
\* with an interface registered before it
NothingElseRecorded(n) ==
    \A id \in 1..Len(evs') :
        (evs'[id].type \in {"intersection", "truncation"} /\ InSeq(n, evs'[id].interfaces)) =>
            \E i \in 1..(n - 1) :
                /\ MeetsAt(n, i, intersection(interfaces'[n], interfaces'[i]))
                /\ Records(evs'[id], n, i, intersection(interfaces'[n], interfaces'[i]).pt)

\* C22: a step that does not fail leaves, for every interface n it handed to
\* _add_interface and every interface i registered before n, a truncation event
\* at their meeting point listing n if i is a user interface and an
\* intersection event there listing both if it is not, and no event for the
\* pair if their slopes are equal within the tolerance, they do not meet, or
\* they meet at an endpoint of n; and every intersection event in the queue
\* lists interfaces without a bottleneck only.
C22_MeetingsRegistered ==
    [][(pc' # "failed") =>
          /\ \A n \in 1..Len(interfaces') :
                Registered(n) => (MeetingsRecorded(n) /\ NothingElseRecorded(n))
          /\ \A k \in 1..Len(Pending') :
                (evs'[Pending'[k]].type = "intersection") =>
                    \A j \in 1..Len(evs'[Pending'[k]].interfaces) :
                        ~interfaces'[evs'[Pending'[k]].interfaces[j]].user]_vars

\* an interface without a bottleneck is listed by a truncation event and by an
\* intersection event, and an interface registered before it has its slope
C22_Witness ==
    /\ pc \in {"loop", "batch"}
    /\ \E n \in 1..Len(interfaces) :
          /\ ~interfaces[n].user
          /\ \E a, b \in 1..Len(evs) :
                /\ evs[a].type = "truncation" /\ InSeq(n, evs[a].interfaces)
                /\ evs[b].type = "intersection" /\ InSeq(n, evs[b].interfaces)
          /\ \E i \in 1..(n - 1) :
                float_isclose(interfaces[i].slope, interfaces[n].slope)

\* the handling of e in this step reaches _handle_capacity_event on an
\* interface that exists at the point of e: e is a capacity event, or a
\* truncation event whose user interface has no states and whose cutoffs
\* raise nothing
RunsCapacity(e) ==
    /\ Handles(e)
    /\ Originating(e) # 0
    /\ ~get_pos_at_time_is_None(interfaces[Originating(e)], e.point.time)
    /\ (e.type = "truncation") =>
          /\ dict_find(truncations, e.point, 1) # 0
          /\ Len(live_interfaces(Drawer, e)) > 0
          /\ ~add_cutoff(interfaces[e.user_interface], e.point, NoPoint).raises
          /\ \A j \in 1..Len(live_interfaces(Drawer, e)) :
                \/ live_interfaces(Drawer, e)[j] = e.user_interface
                \/ ~add_cutoff(interfaces[live_interfaces(Drawer, e)[j]], NoPoint, e.point).raises

\* the interface list as _handle_capacity_event finds it: the list before the
\* step, with the cutoffs a truncation event has made by then
Found(e) ==
    IF e.type = "capacity" THEN interfaces
    ELSE [i \in 1..Len(interfaces) |->
            IF i = e.user_interface THEN add_cutoff(interfaces[i], e.point, NoPoint).iface
            ELSE IF InSeq(i, live_interfaces(Drawer, e))
            THEN add_cutoff(interfaces[i], NoPoint, e.point).iface
            ELSE interfaces[i]]

\* the capacity event handled: e itself, or the one made of a truncation event
Capacity(e) ==
    IF e.type = "capacity" THEN e
    ELSE CapacityEvent(e.point, e.user_interface, AnyCapacity,
                       augments[interfaces[e.user_interface].augment].bottleneck_capacity)

\* the states resolved above and below the point of e
AboveOf(e) == resolve_state(Found(e), diagram, e.point, FALSE)
BelowOf(e) == resolve_state(Found(e), diagram, e.point, TRUE)

\* the prior capacity in effect: the one supplied, else the flow that arrives
PriorOf(e) ==
    IF Capacity(e).prior_capacity = AnyCapacity THEN BelowOf(e).state.flow
    ELSE Capacity(e).prior_capacity

\* the effective posterior capacity
PosteriorOf(e) == posterior_capacity_of(diagram, Capacity(e), BelowOf(e).state)

\* the handling of e gets as far as telling an increase from a drop
Decides(e) ==
    /\ RunsCapacity(e)
    /\ ~AboveOf(e).raises /\ ~BelowOf(e).raises
    /\ PriorOf(e) = BelowOf(e).state.flow
    /\ Interface_get_slope_raises(Found(e)[Originating(e)]) = "none"
    /\ ~state_is_queued_raises(diagram, BelowOf(e).state)

\* the posterior capacity is at least the prior capacity, up to the
\* tolerance, and the state that arrives is not queued or is the state above
IsIncrease(e) ==
    /\ PosteriorOf(e) > PriorOf(e) \/ float_isclose(PosteriorOf(e), PriorOf(e))
    /\ \/ ~state_is_queued(diagram, BelowOf(e).state)
       \/ State__eq(AboveOf(e).state, BelowOf(e).state)

\* the interface created has its slope below (side = "below") or above
\* (side = "above") that of the originating interface o, by more than the
\* tolerance
Beside(created, o, side) ==
    /\ ~float_isclose(created.slope, Interface_get_slope(o))
    /\ IF side = "below" THEN created.slope < Interface_get_slope(o)
       ELSE created.slope > Interface_get_slope(o)

\* the state the handler records on that side of o for the interface
\* created: the state of created on the same side if o ends at point, on the
\* opposite side if not
RecordedFor(created, o, point, side) ==
    IF dtPoint__eq(o.e1, point) = (side = "below") THEN created.below ELSE created.above

\* C23: when the handling of a capacity event takes the capacity-drop branch,
\* every interface it creates whose slope differs from that of the
\* originating interface finds, on the side of the originating interface it
\* labels, the state it records there, and no state the originating interface
\* had before the step is changed.
C23_LabelsConsistent ==
    [][\A id \in 1..Len(evs) :
          (Decides(evs[id]) /\ ~IsIncrease(evs[id])) =>
              /\ \A n \in (Len(interfaces) + 1)..Len(interfaces') :
                 \A side \in {"above", "below"} :
                    Beside(interfaces'[n], Found(evs[id])[Originating(evs[id])], side) =>
                        State__eq(IF side = "below"
                                  THEN interfaces'[Originating(evs[id])].below
                                  ELSE interfaces'[Originating(evs[id])].above,
                                  RecordedFor(interfaces'[n],
                                              Found(evs[id])[Originating(evs[id])],
                                              evs[id].point, side))
              /\ interfaces[Originating(evs[id])].above # NoState =>
                    interfaces'[Originating(evs[id])].above = interfaces[Originating(evs[id])].above
              /\ interfaces[Originating(evs[id])].below # NoState =>
                    interfaces'[Originating(evs[id])].below = interfaces[Originating(evs[id])].below]_vars

\* this step pops the intersection event e and handles it, and at least two
\* of the interfaces of e exist at the time of e
HandlesIntersection(e) ==
    /\ Handles(e)
    /\ e.type = "intersection"
    /\ dict_find(intersections, e.point, 1) # 0
    /\ Len(live_interfaces(Drawer, e)) >= 2

\* the interfaces of e that exist at the time of e
LiveOf(e) == {e.interfaces[j] : j \in {k \in 1..Len(e.interfaces) :
                 ~get_pos_at_time_is_None(interfaces[e.interfaces[k]], e.point.time)}}

\* the above states of the interfaces of e with the least slope
AboveAtMinSlope(e) ==
    {interfaces[i].above : i \in {m \in LiveOf(e) :
        \A k \in LiveOf(e) : interfaces[m].slope <= interfaces[k].slope}}

\* the below states of the interfaces of e with the greatest slope
BelowAtMaxSlope(e) ==
    {interfaces[i].below : i \in {m \in LiveOf(e) :
        \A k \in LiveOf(e) : interfaces[m].slope >= interfaces[k].slope}}

\* the step has added exactly one interface: it starts at the point of e,
\* has the point as its lower bound, and separates a prevailing above state
\* from a prevailing below state
OneFromPoint(e) ==
    /\ Len(interfaces') = Len(interfaces) + 1
    /\ interfaces'[Len(interfaces')].point = e.point
    /\ interfaces'[Len(interfaces')].e0 = e.point
    /\ interfaces'[Len(interfaces')].above \in AboveAtMinSlope(e)
    /\ interfaces'[Len(interfaces')].below \in BelowAtMaxSlope(e)

\* C24: handling an intersection event with at least two interfaces still
\* defined at its point registers exactly one new interface from the point,
\* lower bound the point, between the above state of the interface of least
\* slope and the below state of the interface of greatest slope, when the two
\* states differ by value, and registers none when they are equal.
C24_PrevailingStates ==
    [][\A id \in 1..Len(evs) :
          HandlesIntersection(evs[id]) =>
             /\ (\A a \in AboveAtMinSlope(evs[id]) : \A b \in BelowAtMaxSlope(evs[id]) :
                    ~State__eq(a, b)) => OneFromPoint(evs[id])
             /\ (\A a \in AboveAtMinSlope(evs[id]) : \A b \in BelowAtMaxSlope(evs[id]) :
                    State__eq(a, b)) => (Len(interfaces') = Len(interfaces))]_vars

\* C25: after an intersection event is handled with at least two of its
\* interfaces still defined at its point, each of those interfaces has its
\* upper bound at the point and is defined at no later time.
C25_AllEndAtPoint ==
    [][\A id \in 1..Len(evs) :
          HandlesIntersection(evs[id]) =>
             \A i \in LiveOf(evs[id]) :
                /\ dtPoint__eq(interfaces'[i].e1, evs[id].point)
                /\ \A t \in {evs[id].point.time + EPS, evs[id].point.time + Scale} :
                      get_pos_at_time_is_None(interfaces'[i], t)]_vars

\* this step pops the truncation event e and handles it, and the user
\* interface of e exists at the time of e
HandlesTruncation(e) ==
    /\ Handles(e)
    /\ e.type = "truncation"
    /\ dict_find(truncations, e.point, 1) # 0
    /\ ~get_pos_at_time_is_None(interfaces[e.user_interface], e.point.time)

\* the drawer as the capacity event made of the truncation event e finds it:
\* the event gone from the index, the interfaces it lists cut at its point
AtCapacity(e) ==
    [Drawer EXCEPT !.interfaces = Found(e),
                   !.truncations = dict_pop(@, dict_find(truncations, e.point, 1))]

Engages(e) ==
    /\ HandlesTruncation(e)
    /\ ~has_valid_states(interfaces[e.user_interface])
    /\ Len(live_interfaces(Drawer, e)) > 0
    /\ ~add_cutoff(interfaces[e.user_interface], e.point, NoPoint).raises
    /\ \A j \in 1..Len(live_interfaces(Drawer, e)) :
          \/ live_interfaces(Drawer, e)[j] = e.user_interface
          \/ ~add_cutoff(interfaces[live_interfaces(Drawer, e)[j]], NoPoint, e.point).raises

AtIntersection(e) ==
    [Drawer EXCEPT !.interfaces =
                       Append([Found(e) EXCEPT ![e.user_interface] =
                                  [@ EXCEPT !.above = NoState, !.below = NoState]],
                              interfaces[e.user_interface]),
                   !.truncations = dict_pop(@, dict_find(truncations, e.point, 1))]

\* the intersection event handled for e: over the copy and the interfaces of e
Forced(e) ==
    handle_intersection_event(AtIntersection(e), diagram,
        IntersectionEvent(e.point, <<Len(interfaces) + 1>> \o e.interfaces), TRUE)

\* the copy of the user interface of e is in the list after the step, with
\* the lower bound and the states the user interface had
CopyKept(e) ==
    /\ Len(interfaces') > Len(interfaces)
    /\ interfaces'[Len(interfaces) + 1].user
    /\ interfaces'[Len(interfaces) + 1].e0 = interfaces[e.user_interface].e0
    /\ interfaces'[Len(interfaces) + 1].e1 \in {interfaces[e.user_interface].e1, e.point}
    /\ interfaces'[Len(interfaces) + 1].slope = interfaces[e.user_interface].slope
    /\ interfaces'[Len(interfaces) + 1].above = interfaces[e.user_interface].above
    /\ interfaces'[Len(interfaces) + 1].below = interfaces[e.user_interface].below

Remeets(e) ==
    /\ HandlesTruncation(e)
    /\ has_valid_states(interfaces[e.user_interface])
    /\ Len(live_interfaces(Drawer, e)) > 0
    /\ ~add_cutoff(interfaces[e.user_interface], e.point, NoPoint).raises
    /\ \A j \in 1..Len(live_interfaces(Drawer, e)) :
          \/ live_interfaces(Drawer, e)[j] = e.user_interface
          \/ ~add_cutoff(interfaces[live_interfaces(Drawer, e)[j]], NoPoint, e.point).raises

C28_OthersEndAtPoint ==
    [][\A id \in 1..Len(evs) :
          (HandlesTruncation(evs[id]) /\ pc' # "failed") =>
             \A i \in LiveOf(evs[id]) \ {evs[id].user_interface} :
                /\ dtPoint__eq(interfaces'[i].e1, evs[id].point)
                /\ get_pos_at_time_is_None(interfaces'[i], evs[id].point.time + EPS)]_vars

\* a truncation event has just been handled without error, and an interface
\* that is not a user interface and was listed by the event ends at its point
\* while the user interface goes on
C28_Witness ==
    /\ pc \in {"loop", "batch"}
    /\ handled # <<>>
    /\ evs[handled[Len(handled)]].type = "truncation"
    /\ ~evs[handled[Len(handled)]].disabled
    /\ interfaces[evs[handled[Len(handled)]].user_interface].e1.time
          > evs[handled[Len(handled)]].point.time
    /\ \E j \in 1..Len(evs[handled[Len(handled)]].interfaces) :
          /\ ~interfaces[evs[handled[Len(handled)]].interfaces[j]].user
          /\ interfaces[evs[handled[Len(handled)]].interfaces[j]].e1
                = evs[handled[Len(handled)]].point
          /\ interfaces[evs[handled[Len(handled)]].interfaces[j]].e0.time
                < evs[handled[Len(handled)]].point.time

\* the handling of e in this step resolves the states above and below its
\* point and finds whether the state that arrives is queued
Compares(e) ==
    /\ RunsCapacity(e)
    /\ ~AboveOf(e).raises /\ ~BelowOf(e).raises
    /\ ~state_is_queued_raises(diagram, BelowOf(e).state)

\* the effective posterior capacity is at least the prior capacity, and the
\* state that arrives is not queued or is the state above
NoDropAt(e) ==
    /\ PosteriorOf(e) >= PriorOf(e)
    /\ \/ ~state_is_queued(diagram, BelowOf(e).state)
       \/ State__eq(AboveOf(e).state, BelowOf(e).state)

\* the step has added exactly one interface: from the point of e, between
\* the states resolved above and below it
PassThrough(e) ==
    /\ Len(interfaces') = Len(interfaces) + 1
    /\ interfaces'[Len(interfaces')].point = e.point
    /\ interfaces'[Len(interfaces')].e0 = e.point
    /\ interfaces'[Len(interfaces')].above = AboveOf(e).state
    /\ interfaces'[Len(interfaces')].below = BelowOf(e).state

\* C29: when the effective posterior capacity is at least the prior capacity
\* and the state arriving from below is not queued, or equals the state
\* above, handling the capacity event leaves the states of the originating
\* interface as they were and creates neither a main nor a byproduct
\* interface: it registers exactly one interface from the point, between the
\* states above and below, when their densities differ, and none otherwise.
C29_NoDropPassThrough ==
    [][\A id \in 1..Len(evs) :
          (Compares(evs[id]) /\ NoDropAt(evs[id])) =>
             /\ interfaces'[Originating(evs[id])].above = interfaces[Originating(evs[id])].above
             /\ interfaces'[Originating(evs[id])].below = interfaces[Originating(evs[id])].below
             /\ IF float_isclose(AboveOf(evs[id]).state.density, BelowOf(evs[id]).state.density)
                THEN Len(interfaces') = Len(interfaces)
                ELSE PassThrough(evs[id])]_vars

\* the handling of e in this step takes the capacity-drop branch
Drops(e) == Decides(e) /\ ~IsIncrease(e)

\* the states on the congested and on the free-flow branch of the diagram at
\* the effective posterior capacity
MainState(e) == get_state_by_flow(diagram, PosteriorOf(e), FALSE)
ByproductState(e) == get_state_by_flow(diagram, PosteriorOf(e), TRUE)

\* the step has added an interface from the point of e between the states
\* above and below
RegisteredBetween(e, above, below) ==
    \E n \in (Len(interfaces) + 1)..Len(interfaces') :
        /\ interfaces'[n].e0 = e.point
        /\ interfaces'[n].above = above
        /\ interfaces'[n].below = below

\* every interface the step has added separates two states that differ
NewSeparate ==
    \A n \in (Len(interfaces) + 1)..Len(interfaces') :
        interfaces'[n].user \/ ~State__eq(interfaces'[n].above, interfaces'[n].below)

-----------------------------------------------------------------------------
(* _create_figure and _resolve_polygons: the regions of the finished diagram *)

\* a loop over lo..hi that hands state S from one turn F to the next; it is
\* taken by halves, the state in the middle being worked out before the second
\* half is begun, which leaves the order of the turns as it is
RECURSIVE loop(_, _, _, _)
loop(F(_, _), S, lo, hi) ==
    IF lo > hi THEN S
    ELSE IF lo = hi THEN F(S, lo)
    ELSE CHOOSE r \in {loop(F, m, ((lo + hi) \div 2) + 1, hi) :
                       m \in {loop(F, S, lo, (lo + hi) \div 2)}} : TRUE

\* the quotient and remainder h of a number by c, after sixteen times the
\* number plus digit * a
muldiv_digit(h, a, digit, c) ==
    <<16 * h[1] + ((16 * h[2] + digit * a) \div c), (16 * h[2] + digit * a) % c>>

\* a * b = q * c + r with 0 <= r < c, for a in 0..(c - 1), b >= 0: <<q, r>>,
\* b taken sixteen at a time so that no intermediate exceeds 32 bits
RECURSIVE muldiv(_, _, _)
muldiv(a, b, c) ==
    IF b = 0 THEN <<0, 0>> ELSE muldiv_digit(muldiv(a, b \div 16, c), a, b % 16, c)

\* the quotient of h rounded to the nearest unit
muldiv_rounded(h, c) == h[1] + (IF 2 * h[2] >= c THEN 1 ELSE 0)

\* a * b / c as the float operations give it, rounded to the nearest unit
MulDiv(a, b, c) ==
    (IF (a < 0) # ((b < 0) # (c < 0)) THEN -1 ELSE 1)
        * ((Abs(a) \div Abs(c)) * Abs(b) + muldiv_rounded(muldiv(Abs(a) % Abs(c), Abs(b), Abs(c)), Abs(c)))

\* Viewport(max_time, min_time, max_pos, min_pos)
Viewport(max_time, min_time, max_pos, min_pos) ==
    [max_time |-> max_time, min_time |-> min_time, max_pos |-> max_pos, min_pos |-> min_pos]

MaxOf(S) == CHOOSE x \in S : \A y \in S : y <= x

\* the drawn interfaces: those with both states
Drawn(ifaces) == {i \in 1..Len(ifaces) : has_valid_states(ifaces[i])}

\* max_time of _create_figure called without a viewport
figure_max_time(ifaces, simulation_time) ==
    MaxOf({0 - Scale, simulation_time} \cup {ifaces[i].e0.time : i \in 1..Len(ifaces)})
        + PLOT_THRESHOLD_OFFSET

\* the default viewport of _create_figure: max_pos is raised by the open
\* interfaces only, min_pos lowered by the bounds of every drawn interface
figure_viewport(ifaces, max_time) ==
    Viewport(max_time, 0 - PLOT_THRESHOLD_OFFSET,
             MaxOf({0 - Scale} \cup {get_pos_at_time(ifaces[i], max_time) :
                                     i \in {j \in Drawn(ifaces) : ifaces[j].e1.time = Inf}}),
             0 - MaxOf({PLOT_THRESHOLD_OFFSET}
                       \cup {0 - ifaces[i].e0.position : i \in Drawn(ifaces)}
                       \cup {0 - ifaces[i].e1.position :
                             i \in {j \in Drawn(ifaces) : ifaces[j].e1.time # Inf}}))

\* p and q are one key of a dict or one element of a set: same hash, then __eq__
same_key(p, q) == dtPoint__hash(p) = dtPoint__hash(q) /\ dtPoint__eq(p, q)

\* the place of the key of graph that x is, 0 if it is none
node_find(nodes, x) ==
    IF \E i \in 1..Len(nodes) : same_key(nodes[i], x)
    THEN CHOOSE i \in 1..Len(nodes) :
            same_key(nodes[i], x) /\ \A j \in 1..(i - 1) : ~same_key(nodes[j], x)
    ELSE 0

\* graph[x]: a missing key is added with an empty set (defaultdict)
graph_key(G, x) ==
    IF node_find(G.nodes, x) # 0 THEN G
    ELSE [nodes |-> Append(G.nodes, x), adj |-> Append(G.adj, <<>>)]

\* graph[x] of a key x
graph_get(G, x) == G.adj[node_find(G.nodes, x)]

\* s.add(y) for a set s of points, kept as the sequence of its points in the
\* order of arrival
set_add(s, y) == IF \E i \in 1..Len(s) : same_key(s[i], y) THEN s ELSE Append(s, y)

\* graph[x].add(y) where x is a key
graph_add_key(G, x, y) == [G EXCEPT !.adj[node_find(G.nodes, x)] = set_add(@, y)]

\* graph[x].add(y)
graph_add(G, x, y) == graph_add_key(graph_key(G, x), x, y)

\* for neighbor in graph[x]: graph[neighbor].add(x)
graph_back(G, s, x) == loop(LAMBDA H, i : graph_add(H, s[i], x), G, 1, Len(s))

graph_back_all(G, x) == graph_back(G, graph_get(G, x), x)

\* lines 1191-1198 for the bounds x and y of one interface
graph_edge(G, x, y) == graph_back_all(graph_back_all(graph_add(graph_add(G, x, y), y, x), x), y)

\* SortedList(key = position).add: after the entries of the same position
segments_add(segments, y) ==
    InsertAt(segments, Cardinality({i \in 1..Len(segments) : segments[i].position <= y.position}), y)

\* the upper bound of an interface as the graph takes it: an open one is the
\* point of the line at max_time
graph_upper(iface, V) ==
    IF iface.e1.time = Inf THEN Pt(V.max_time, get_pos_at_time(iface, V.max_time)) ELSE iface.e1

\* lines 1188-1198 for the bounds x and y of an interface
graph_bounds(B, x, y, V) ==
    [graph |-> graph_edge(B.graph, x, y),
     segments |-> IF ~dtPoint__eq(y, Pt(V.max_time, V.max_pos)) /\ float_isclose(V.max_time, y.time)
                  THEN segments_add(B.segments, y) ELSE B.segments,
     raises |-> FALSE]

\* one turn of the loop over self.interfaces; assert y_pos fails on 0.0
graph_interface(B, iface, V) ==
    IF B.raises \/ ~has_valid_states(iface) THEN B
    ELSE IF iface.e1.time = Inf /\ get_pos_at_time(iface, V.max_time) = 0
         THEN [B EXCEPT !.raises = TRUE]
    ELSE graph_bounds(B, iface.e0, graph_upper(iface, V), V)

\* the six assignments that join the corners
graph_corners(B, bl, tl, br, tr) ==
    IF B.raises THEN B
    ELSE [B EXCEPT !.graph = graph_add(graph_add(graph_add(graph_add(graph_add(graph_add(@,
              bl, tl), bl, br), tl, tr), tl, bl), br, bl), tr, tl)]

\* graph[below].add(above) and graph[above].add(below) for segments i and i + 1
graph_segment(B, i) ==
    IF B.raises THEN B
    ELSE [B EXCEPT !.graph = graph_add(graph_add(@, B.segments[i], B.segments[i + 1]),
                                       B.segments[i + 1], B.segments[i])]

\* the graph with the interfaces in it and the corners joined
graph_framed(ifaces, V) ==
    graph_corners(
        loop(LAMBDA B, i : graph_interface(B, ifaces[i], V),
             [graph |-> [nodes |-> <<>>, adj |-> <<>>],
              segments |-> segments_add(segments_add(<<>>, Pt(V.max_time, V.min_pos)),
                                        Pt(V.max_time, V.max_pos)),
              raises |-> FALSE], 1, Len(ifaces)),
        Pt(V.min_time, V.min_pos), Pt(V.min_time, V.max_pos),
        Pt(V.max_time, V.min_pos), Pt(V.max_time, V.max_pos))

\* lines 1164-1211: the graph of _resolve_polygons, raises if the assertion fails
graph_chained(B) == loop(LAMBDA C, i : graph_segment(C, i), B, 1, Len(B.segments) - 1)

build_graph(ifaces, V) == graph_chained(graph_framed(ifaces, V))

\* prev_vec[0] * vec[1] - prev_vec[1] * vec[0]
cross(p, v) == FMul(p.time, v.position) - FMul(p.position, v.time)

dot(p, v) == FMul(p.time, v.time) + FMul(p.position, v.position)

\* float_isclose(np.linalg.norm(v), 0)
norm_isclose_0(v) ==
    /\ Abs(v.time) <= ABS_TOL
    /\ Abs(v.position) <= ABS_TOL
    /\ v.time * v.time + v.position * v.position <= ABS_TOL * ABS_TOL

\* a - b as a vector
minus(a, b) == Pt(a.time - b.time, a.position - b.position)

\* the angle of lines 1264-1272 for vec v is greater than that for vec w: the
\* angle is the one from prev_vec p round to the vec, counted from 0 up to 360
\* in the sense in which the cross product is positive
angle_gt(p, v, w) ==
    IF (cross(p, v) < 0) # (cross(p, w) < 0) THEN cross(p, v) < 0
    ELSE IF cross(w, v) # 0 THEN cross(w, v) > 0
    ELSE dot(p, v) < dot(p, w)

\* the neighbours of cur that the loop of lines 1254-1276 does not pass over
turns(s, prev, cur) ==
    {i \in 1..Len(s) : ~norm_isclose_0(minus(cur, prev)) /\ ~norm_isclose_0(minus(cur, s[i]))}

\* next_point after that loop over the neighbours s of cur: the first
\* neighbour of the greatest angle, NoPoint for None
next_point(s, prev, cur) ==
    IF turns(s, prev, cur) = {} THEN NoPoint
    ELSE s[CHOOSE i \in turns(s, prev, cur) :
              \A j \in turns(s, prev, cur) :
                  /\ ~angle_gt(minus(cur, prev), minus(cur, s[j]), minus(cur, s[i]))
                  /\ j < i => angle_gt(minus(cur, prev), minus(cur, s[i]), minus(cur, s[j]))]

\* the order in which a set is gone through is not fixed by the code: the
\* order of arrival or its reverse
SetOrders == {"arrival", "reverse"}

iter(s, order) == IF order = "arrival" THEN s ELSE Reverse(s)

\* the rest of one turn of the while loop of lines 1244-1286, cur pushed
walk_on(w, point, next, bound) ==
    IF next = NoPoint \/ dtPoint__eq(next, point) THEN [w EXCEPT !.state = "closed"]
    ELSE IF w.iterations + 1 = bound THEN [w EXCEPT !.state = "stopped"]
    ELSE [w EXCEPT !.cur = next, !.iterations = @ + 1]

\* one turn of the while loop, if the loop has not been left
walk_turn(G, w, point, order) ==
    IF w.state # "walking" THEN w
    ELSE walk_on([w EXCEPT !.stack = Append(@, w.cur)], point,
                 next_point(iter(graph_get(G, w.cur), order), w.stack[Len(w.stack)], w.cur),
                 Len(G.nodes) * 2)

\* the walk from point that begins with the step to cur: the loop is left
\* after len(graph) * 2 turns at the latest
walk(G, point, cur, order) ==
    loop(LAMBDA w, i : walk_turn(G, w, point, order),
         [stack |-> <<point>>, cur |-> cur, iterations |-> 0, state |-> "walking"],
         1, Len(G.nodes) * 2)

\* (a, b) in seen
seen_has(seen, a, b) ==
    \E i \in 1..Len(seen) : same_key(seen[i][1], a) /\ same_key(seen[i][2], b)

\* the first neighbour n of point with (point, n) not in seen, NoPoint for None
first_unseen(s, point, seen) ==
    IF \A i \in 1..Len(s) : seen_has(seen, point, s[i]) THEN NoPoint
    ELSE s[CHOOSE i \in 1..Len(s) :
              ~seen_has(seen, point, s[i]) /\ \A j \in 1..(i - 1) : seen_has(seen, point, s[j])]

\* lines 1291-1293: the steps of the walk, and the step from its end to its start
seen_add(seen, stack) ==
    seen \o [i \in 1..Len(stack) |-> <<stack[i], stack[(i % Len(stack)) + 1]>>]

\* what a finished walk leaves: nothing if it was stopped, else its steps in
\* seen, and its stack as a polygon if it has more than two points
walk_kept(W, w) ==
    IF w.state = "stopped" THEN W
    ELSE [seen |-> seen_add(W.seen, w.stack),
          polygons |-> IF Len(w.stack) <= 2 THEN W.polygons ELSE Append(W.polygons, w.stack)]

\* one turn of the loop over graph.keys(), cur the first step
walk_from(G, W, point, cur, order) ==
    IF cur = NoPoint THEN W ELSE walk_kept(W, walk(G, point, cur, order))

\* the turn for the k-th key
walk_key(G, W, k, order) ==
    walk_from(G, W, G.nodes[k], first_unseen(iter(G.adj[k], order), G.nodes[k], W.seen), order)

\* for _ in range(2): for point in graph.keys()
walks(G, order) ==
    loop(LAMBDA W, k : walk_key(G, W, ((k - 1) % Len(G.nodes)) + 1, order),
         [seen |-> <<>>, polygons |-> <<>>], 1, 2 * Len(G.nodes))

\* the side of the line through a and b on which c lies: 1, 0 on it, or -1
orient(a, b, c) ==
    IF cross(minus(b, a), minus(c, a)) > 0 THEN 1
    ELSE IF cross(minus(b, a), minus(c, a)) < 0 THEN -1 ELSE 0

\* c is in the box of a and b
in_box(a, b, c) ==
    /\ Min(a.time, b.time) <= c.time /\ c.time <= 0 - Min(0 - a.time, 0 - b.time)
    /\ Min(a.position, b.position) <= c.position
    /\ c.position <= 0 - Min(0 - a.position, 0 - b.position)

\* the segments ab and cd have a point in common
segments_meet(a, b, c, d) ==
    \/ orient(a, b, c) * orient(a, b, d) < 0 /\ orient(c, d, a) * orient(c, d, b) < 0
    \/ orient(a, b, c) = 0 /\ in_box(a, b, c)
    \/ orient(a, b, d) = 0 /\ in_box(a, b, d)
    \/ orient(c, d, a) = 0 /\ in_box(c, d, a)
    \/ orient(c, d, b) = 0 /\ in_box(c, d, b)

\* the i-th edge of ring c ends in the vertex after(c, i)
after(c, i) == c[(i % Len(c)) + 1]

\* twice the area of the polygon of ring c, signed
ring_area2(c) ==
    loop(LAMBDA sum, i : sum + cross(minus(c[i], c[1]), minus(c[i + 1], c[1])), 0, 2, Len(c) - 1)

\* shapely's is_valid for the polygon of ring c: an area, no vertex twice, no
\* edge turning back on the one before, no two other edges with a common point
ring_is_valid(c) ==
    /\ Len(c) >= 3
    /\ ring_area2(c) # 0
    /\ \A i, j \in 1..Len(c) : i < j => c[i] # c[j]
    /\ \A i \in 1..Len(c) :
          ~(orient(c[i], after(c, i), after(c, i + 1)) = 0
            /\ dot(minus(after(c, i), c[i]), minus(after(c, i + 1), after(c, i))) < 0)
    /\ \A i, j \in 1..Len(c) :
          (i + 1 < j /\ ~(i = 1 /\ j = Len(c)))
              => ~segments_meet(c[i], after(c, i), c[j], after(c, j))

\* point p is within bound side of the viewport: 1 min_time, 2 max_time,
\* 3 min_pos, 4 max_pos
inside(p, side, V) ==
    CASE side = 1 -> p.time >= V.min_time
      [] side = 2 -> p.time <= V.max_time
      [] side = 3 -> p.position >= V.min_pos
      [] side = 4 -> p.position <= V.max_pos

\* the point at time t, or at position x, of the line from a to b
at_time(a, b, t) == Pt(t, a.position + MulDiv(b.position - a.position, t - a.time, b.time - a.time))

at_position(a, b, x) == Pt(a.time + MulDiv(b.time - a.time, x - a.position, b.position - a.position), x)

\* where the segment from a to b, a the earlier or the lower of the two,
\* meets the line of bound side
cut_ordered(a, b, side, V) ==
    CASE side = 1 -> at_time(a, b, V.min_time)
      [] side = 2 -> at_time(a, b, V.max_time)
      [] side = 3 -> at_position(a, b, V.min_pos)
      [] side = 4 -> at_position(a, b, V.max_pos)

cut(a, b, side, V) ==
    IF a.time < b.time \/ (a.time = b.time /\ a.position < b.position)
    THEN cut_ordered(a, b, side, V) ELSE cut_ordered(b, a, side, V)

\* what the edge from a to b leaves within bound side
clip_edge(a, b, side, V) ==
    IF inside(b, side, V)
    THEN (IF inside(a, side, V) THEN <<b>> ELSE <<cut(a, b, side, V), b>>)
    ELSE IF inside(a, side, V) THEN <<cut(a, b, side, V)>> ELSE <<>>

\* the part of ring c within bound side
clip_side(c, side, V) ==
    loop(LAMBDA out, i : out \o clip_edge(c[i], after(c, i), side, V), <<>>, 1, Len(c))

\* full_polygon.intersection(polygon) for a valid polygon: the ring cut to the
\* four bounds in turn
clip(c, V) == loop(LAMBDA ring, side : clip_side(ring, side, V), c, 1, 4)

\* twice the area of the viewport
viewport_area2(V) == 2 * FMul(V.max_time - V.min_time, V.max_pos - V.min_pos)

\* lines 1308-1322 for a polygon that is valid: its intersection, if not empty
intersection_kept(out, ring) ==
    IF Len(ring) >= 3 /\ ring_area2(ring) # 0 THEN Append(out, ring) ELSE out

\* lines 1302-1329 for the polygons that are valid
intersections_of(polygons, V) ==
    loop(LAMBDA out, i : IF ring_is_valid(polygons[i]) THEN intersection_kept(out, clip(polygons[i], V))
                         ELSE out,
         <<>>, 1, Len(polygons))

\* the area of ring is the area of the viewport within the tolerance
is_full(ring, V) == float_isclose(Abs(ring_area2(ring)), viewport_area2(V))

\* out.pop(i)
list_pop(out, i) == SubSeq(out, 1, i - 1) \o SubSeq(out, i + 1, Len(out))

\* lines 1331-1335: of two or more, the first of the area of the viewport is dropped
pop_full(out, V) ==
    IF Len(out) > 1 /\ \E i \in 1..Len(out) : is_full(out[i], V)
    THEN list_pop(out, CHOOSE i \in 1..Len(out) :
                           is_full(out[i], V) /\ \A j \in 1..(i - 1) : ~is_full(out[j], V))
    ELSE out

\* what _resolve_polygons(full_viewport, None) gives for the walks W: out is
\* what is returned of the candidates that are valid polygons, invalid the
\* candidates that are not, which shapely.make_valid reshapes before the
\* intersection is taken
polygons_of(W, V) ==
    [raises |-> FALSE,
     candidates |-> W.polygons,
     out |-> pop_full(intersections_of(W.polygons, V), V),
     invalid |-> {i \in 1..Len(W.polygons) : ~ring_is_valid(W.polygons[i])}]

resolve_polygons_built(B, V, order) ==
    IF B.raises THEN [raises |-> TRUE, candidates |-> <<>>, out |-> <<>>, invalid |-> {}]
    ELSE polygons_of(walks(B.graph, order), V)

resolve_polygons(ifaces, V, order) == resolve_polygons_built(build_graph(ifaces, V), V, order)

\* the figure made of a drawer whose run(simulation_time) has returned
figure(ifaces, V, order) ==
    [op |-> "figure", order |-> order, viewport |-> V, polygons |-> resolve_polygons(ifaces, V, order)]

CreateFigure ==
    /\ pc = "done"
    /\ probe = ProbeIdle
    /\ \E order \in SetOrders :
          probe' = figure(interfaces,
                          figure_viewport(interfaces, figure_max_time(interfaces, TrafficLightHorizon)),
                          order)
    /\ pc' = "drawn"
    /\ UNCHANGED <<err, diagram, augments, disable, interfaces, evs, events, pos_queue,
                   intersections, truncations, batch_taken, handled, batch_log>>

\* the runs a figure is made of: one augmenter of the catalog, the staggered
\* pair, or the whole-horizon bottleneck
FigureScenarios == {<<Catalog[i]>> : i \in 1..Len(Catalog)} \cup {Staggered, WholeHorizon}

FigureInit ==
    /\ pc = "start"
    /\ err = "none"
    /\ diagram \in Diagrams
    /\ augments \in FigureScenarios
    /\ disable \in 0..MaxDisable
    /\ interfaces = <<>>
    /\ evs = <<>>
    /\ events = <<>>
    /\ pos_queue = <<>>
    /\ intersections = <<>>
    /\ truncations = <<>>
    /\ batch_taken = <<>>
    /\ handled = <<>>
    /\ batch_log = <<>>
    /\ probe = ProbeIdle

FigureNext ==
    \/ Next
    \/ CreateFigure

FigureSpec == FigureInit /\ [][FigureNext]_vars

\* the polygons of the figure of the state, when one has been made
Regions == probe.polygons.out

\* the sum of twice the areas of rings
area2_sum(rings) == loop(LAMBDA sum, i : sum + Abs(ring_area2(rings[i])), 0, 1, Len(rings))

\* how the i-th edge of ring c passes the level of point p: up on its left
\* 1, down on its right -1, else 0
passes(p, a, b) ==
    IF a.position <= p.position /\ p.position < b.position /\ orient(a, b, p) > 0 THEN 1
    ELSE IF b.position <= p.position /\ p.position < a.position /\ orient(a, b, p) < 0 THEN -1
    ELSE 0

\* how often ring c winds round point p
winding(p, c) == loop(LAMBDA sum, i : sum + passes(p, c[i], after(c, i)), 0, 1, Len(c))

\* point p is inside the polygon of ring c and not on its border
StrictlyInside(p, c) ==
    /\ winding(p, c) # 0
    /\ \A i \in 1..Len(c) : ~(orient(c[i], after(c, i), p) = 0 /\ in_box(c[i], after(c, i), p))

\* the points at which coverage is looked at: the centre of every three
\* successive corners of a ring
Samples(c) ==
    {Pt((c[i].time + after(c, i).time + after(c, i + 1).time) \div 3,
        (c[i].position + after(c, i).position + after(c, i + 1).position) \div 3) :
     i \in 1..Len(c)}

\* some point is inside both rings
DoublyCovered(c, d) ==
    \E p \in Samples(c) \cup Samples(d) : StrictlyInside(p, c) /\ StrictlyInside(p, d)

\* the areas of the regions add up to the area of the viewport
AreasAddUp == float_isclose(area2_sum(Regions), viewport_area2(probe.viewport))

\* C21: the polygons that the region decomposition returns for the final
\* interface list and the viewport tile the viewport: no point lies inside two
\* of them, and their areas add up to the area of the viewport within the
\* tolerance (the sum is taken where every candidate is a valid polygon, so
\* that what is returned is known in full)
C21_RegionsTile ==
    (probe.op = "figure" /\ ~probe.polygons.raises) =>
        /\ \A i, j \in 1..Len(Regions) : i < j => ~DoublyCovered(Regions[i], Regions[j])
        /\ probe.polygons.invalid = {} => AreasAddUp

-----------------------------------------------------------------------------
(* Properties of the handlers and of Interface, continued *)

HandlesCutOff(e) ==
    /\ HandlesCapacity(e)
    /\ get_pos_at_time_is_None(interfaces[e.interface], e.point.time)

\* C32: a capacity event whose interface is no longer defined at the time of
\* the event is a no-op: the step that handles it adds no interface, changes
\* the bounds and states of none, schedules no event and raises nothing.
C32_CutOffIsNoOp ==
    [][\A id \in 1..Len(evs) :
          HandlesCutOff(evs[id]) =>
             /\ interfaces' = interfaces
             /\ evs' = evs
             /\ events' = events
             /\ intersections' = intersections
             /\ truncations' = truncations
             /\ err' = "none"]_vars

\* runs with two bottlenecks that cross: one that moves and a stationary one
\* in its way, each closed, at a capacity below or at a capacity above the
\* flow of the initial state, the stationary one ending before or after the other
Crossings ==
    UNION {{<<LineBottleneck(0, 420000, 480000, 660000, cy), HorizontalBottleneck(480000, 0, tx, cx)>>,
            <<HorizontalBottleneck(480000, 0, tx, cx), LineBottleneck(0, 420000, 480000, 660000, cy)>>} :
           cx \in {0, 6000, 20000}, cy \in {0, 6000, 20000}, tx \in {240000, 540000}}

CrossingInit ==
    /\ pc = "start"
    /\ err = "none"
    /\ diagram \in Diagrams
    /\ augments \in Crossings
    /\ disable \in 0..MaxDisable
    /\ interfaces = <<>>
    /\ evs = <<>>
    /\ events = <<>>
    /\ pos_queue = <<>>
    /\ intersections = <<>>
    /\ truncations = <<>>
    /\ batch_taken = <<>>
    /\ handled = <<>>
    /\ batch_log = <<>>
    /\ probe = ProbeIdle

CrossingSpec == CrossingInit /\ [][Next]_vars

\* a capacity event has just been handled whose interface, a bottleneck with
\* states, was cut off before the time of the event, and the flow of the state
\* below the point is the prior capacity of the event: but for the cut the
\* event would have taken effect
C32_Witness ==
    /\ pc \in {"loop", "batch"}
    /\ handled # <<>>
    /\ evs[handled[Len(handled)]].type = "capacity"
    /\ ~evs[handled[Len(handled)]].disabled
    /\ get_pos_at_time_is_None(interfaces[evs[handled[Len(handled)]].interface],
                               evs[handled[Len(handled)]].point.time)
    /\ has_valid_states(interfaces[evs[handled[Len(handled)]].interface])
    /\ resolve_state(interfaces, diagram, evs[handled[Len(handled)]].point, TRUE).state.flow
          = evs[handled[Len(handled)]].prior_capacity

\* the distance of the nearest interface that qualifies
LeastDistance(point, below) ==
    CHOOSE d \in {side_distance(interfaces[j], point, below) :
                  j \in {k \in 1..Len(interfaces) : Qualifies(interfaces[k], point, below)}} :
        \A i \in 1..Len(interfaces) :
            Qualifies(interfaces[i], point, below) => d <= side_distance(interfaces[i], point, below)

\* the qualifying interfaces at the distance of the nearest one, within tolerance
Tied(point, below) ==
    {i \in 1..Len(interfaces) :
        /\ Qualifies(interfaces[i], point, below)
        /\ float_isclose(side_distance(interfaces[i], point, below), LeastDistance(point, below))}

\* several interfaces are tied, and no other qualifying interface is within
\* tolerance of the distance of one of them
SeveralTied(point, below) ==
    /\ Cardinality(Tied(point, below)) >= 2
    /\ \A j \in 1..Len(interfaces) :
          (Qualifies(interfaces[j], point, below) /\ j \notin Tied(point, below)) =>
             \A i \in Tied(point, below) :
                 ~float_isclose(side_distance(interfaces[j], point, below),
                                side_distance(interfaces[i], point, below))

\* the tied interfaces of the most extreme slope toward the side asked for
Steepest(point, below) ==
    {i \in Tied(point, below) :
        \A j \in Tied(point, below) :
            IF below THEN interfaces[j].slope <= interfaces[i].slope
            ELSE interfaces[j].slope >= interfaces[i].slope}

\* the first of them in the list
FirstSteepest(point, below) ==
    CHOOSE i \in Steepest(point, below) : \A j \in Steepest(point, below) : i <= j

\* r is the facing state of a steepest tied interface, and stays what it is
\* when the list is read in the opposite order
SteepestWhateverOrder(r, point, below) ==
    /\ \E i \in Steepest(point, below) : r.state = Facing(interfaces[i], below)
    /\ resolve_state(Reverse(interfaces), diagram, point, below) = r

\* C33 as amended: when several qualifying interfaces are at the same distance
\* (within tolerance) from the query position, _resolve_state returns the
\* state of the one with the greatest slope for side below and of the one
\* with the smallest slope for side above, and of the first of these in the
\* list when several of them have that slope: for the calls made after run(),
\* and for the calls a capacity event makes.
C33_FirstSteepestOfTied ==
    /\ (probe.op = "resolved" /\ SeveralTied(probe.point, probe.below)) =>
          /\ ~probe.raises
          /\ probe.state = Facing(interfaces[FirstSteepest(probe.point, probe.below)], probe.below)
    /\ ResolvesNext =>
          \A below \in BOOLEAN :
              SeveralTied(evs[pos_queue[1][3]].point, below) =>
                 resolve_state(interfaces, diagram, evs[pos_queue[1][3]].point, below)
                    = [raises |-> FALSE,
                       state |-> Facing(interfaces[FirstSteepest(evs[pos_queue[1][3]].point, below)], below)]

\* C33: when several qualifying interfaces are at the same distance (within
\* tolerance) from the query position, _resolve_state returns the state of the
\* one with the greatest slope for side below and of the one with the smallest
\* slope for side above, whatever the order of the interfaces in the list: for
\* the calls made after run(), and for the calls a capacity event makes.
C33_SteepestOfTied ==
    /\ (probe.op = "resolved" /\ SeveralTied(probe.point, probe.below)) =>
          SteepestWhateverOrder([raises |-> probe.raises, state |-> probe.state],
                                probe.point, probe.below)
    /\ ResolvesNext =>
          \A below \in BOOLEAN :
              SeveralTied(evs[pos_queue[1][3]].point, below) =>
                 SteepestWhateverOrder(resolve_state(interfaces, diagram,
                                                     evs[pos_queue[1][3]].point, below),
                                       evs[pos_queue[1][3]].point, below)

\* a query answered from tied interfaces of different slopes, the first of
\* which in the list is not the one preferred
C33_Witness ==
    /\ probe.op = "resolved"
    /\ SeveralTied(probe.point, probe.below)
    /\ \E i \in Tied(probe.point, probe.below) :
          /\ i < FirstSteepest(probe.point, probe.below)
          /\ interfaces[i].slope # interfaces[FirstSteepest(probe.point, probe.below)].slope
          /\ Facing(interfaces[i], probe.below) # probe.state

\* the interfaces as _setup leaves them: the user interfaces with the bounds
\* their augmenters give them
Born == setup(augments).interfaces

\* the upper bound interface i is created with: that of its augmenter for a
\* user interface of _setup, the open bound for every interface created later
BornUpper(i) == IF i <= Len(Born) THEN Born[i].e1 ELSE Pt(Inf, Inf)

\* this step moves the lower (upper) bound of interface i
MovesLower(i) == interfaces'[i].e0 # interfaces[i].e0
MovesUpper(i) == interfaces'[i].e1 # interfaces[i].e1

\* C34 as amended: over any run, each interface's upper bound is tightened by
\* at most one cutoff, and after it has been cut no later cutoff moves it
\* again; the lower bound of an interface the engine creates is never moved,
\* and the lower bound of a user interface is moved only by the truncation
\* events handled on it, each of which may move it again.
C34_UpperCutOnce ==
    [][\A i \in 1..Len(interfaces) :
          /\ MovesUpper(i) => interfaces[i].e1 = BornUpper(i)
          /\ MovesLower(i) =>
                /\ i <= Len(Born)
                /\ \E id \in 1..Len(evs) :
                      HandlesTruncation(evs[id]) /\ evs[id].user_interface = i]_vars

\* C34: over any run, each interface's lower bound is tightened by at most one
\* cutoff and its upper bound by at most one cutoff: a bound that moves is the
\* bound the interface was created with.
C34_EachSideCutOnce ==
    [][\A i \in 1..Len(interfaces) :
          /\ MovesUpper(i) => interfaces[i].e1 = BornUpper(i)
          /\ MovesLower(i) => (i <= Len(Born) /\ interfaces[i].e0 = Born[i].e0)]_vars

\* an interface the engine created has been cut from above, is listed by an
\* event handled since at a later time, and a user interface has been cut from
\* below
C34_Witness ==
    /\ pc \in {"loop", "batch"}
    /\ handled # <<>>
    /\ \E i \in 1..Len(interfaces) :
          /\ ~interfaces[i].user
          /\ interfaces[i].e1 # Pt(Inf, Inf)
          /\ InSeq(i, evs[handled[Len(handled)]].interfaces)
          /\ ~evs[handled[Len(handled)]].disabled
          /\ evs[handled[Len(handled)]].point.time > interfaces[i].e1.time + ABS_TOL
    /\ \E i \in 1..Len(Born) : interfaces[i].e0 # Born[i].e0

-----------------------------------------------------------------------------
(* Interface.add_cutoff applied to an interface on its own *)

CutTimes == {0, 120000, 240000, 360000}
MaxCuts == 2            \* calls of add_cutoff on one interface

\* interfaces as the constructors make them: with the lower bound at the
\* reference point as the engine passes it, with the default bounds, and a
\* user interface between two points
CutInterfaces ==
    {Interface__init(Pt(120000, 360000), m, NoState, NoState, lb, NoPoint) :
        m \in {0 - Scale, 2 * Scale}, lb \in {Pt(120000, 360000), NoPoint}}
    \cup {UserInterface__init(Pt(120000, 360000), 0, 1, Pt(120000, 360000), Pt(240000, 360000))}

\* what a caller may pass for a bound: nothing, a point of the line, a point
\* a tenth of a unit above the line
CutArguments(self) ==
    {NoPoint}
    \cup {Pt(t, get_pos_at_time(self, t) + d) : t \in CutTimes, d \in {0, Scale \div 10}}

CutoffInit ==
    /\ pc = "pure"
    /\ err = "none"
    /\ diagram = Diagram(0)
    /\ augments = <<>>
    /\ disable = 0
    /\ \E self \in CutInterfaces : interfaces = <<self>>
    /\ evs = <<>>
    /\ events = <<>>
    /\ pos_queue = <<>>
    /\ intersections = <<>>
    /\ truncations = <<>>
    /\ batch_taken = <<>>
    /\ handled = <<>>
    /\ batch_log = <<>>
    /\ probe = [op |-> "interface", cuts |-> 0]

\* interfaces[1].add_cutoff(lower, upper)
Cutoff ==
    /\ pc = "pure"
    /\ probe.op \in {"interface", "cut"}
    /\ probe.cuts < MaxCuts
    /\ \E lower, upper \in CutArguments(interfaces[1]) :
          /\ probe' = [op |-> "cut", cuts |-> probe.cuts + 1, before |-> interfaces[1],
                       lower |-> lower, upper |-> upper,
                       raises |-> add_cutoff(interfaces[1], lower, upper).raises]
          /\ interfaces' = <<add_cutoff(interfaces[1], lower, upper).iface>>
    /\ UNCHANGED <<pc, err, diagram, augments, evs, events, pos_queue, intersections,
                   truncations, disable, batch_taken, handled, batch_log>>

CutoffSpec == CutoffInit /\ [][Cutoff]_vars

\* p lies on the line of self
OnLine(self, p) == float_isclose(p.position, get_pos_at_time(self, p.time))

\* the call supplies a point that is not on the line, or two points of which
\* lower is not strictly earlier than upper
BadArguments(self, lower, upper) ==
    \/ lower # NoPoint /\ ~OnLine(self, lower)
    \/ upper # NoPoint /\ ~OnLine(self, upper)
    \/ lower # NoPoint /\ upper # NoPoint /\ ~(lower.time < upper.time)

\* the call supplies one point, on the line and not an endpoint already
OneGoodArgument(self, lower, upper) ==
    \E p \in {lower, upper} :
        /\ {lower, upper} = {p, NoPoint}
        /\ p # NoPoint
        /\ OnLine(self, p)
        /\ ~has_endpoint(self, p)

\* C35: add_cutoff raises when a supplied point does not lie on the line of the
\* interface, or when both points are supplied and lower is not strictly
\* earlier than upper; when it raises, the reference point and both bounds are
\* as they were; and a supplied point that lies on the line and is not an
\* endpoint already is accepted.
C35_CutoffErrors ==
    (probe.op = "cut") =>
        /\ BadArguments(probe.before, probe.lower, probe.upper) => probe.raises
        /\ probe.raises => interfaces[1] = probe.before
        /\ OneGoodArgument(probe.before, probe.lower, probe.upper) => ~probe.raises

-----------------------------------------------------------------------------
(* Properties of the event queue, continued *)

\* the events this step puts into the queue
Scheduled == {events'[k] : k \in 1..Len(events')} \ {events[k] : k \in 1..Len(events)}

\* this step takes a batch out of the queue
TakesBatch == pc = "loop" /\ pc' = "batch"

\* C36: every event put into the queue while an event at time t is handled has
\* a time not earlier than t, up to the tolerance, and the batch run() takes
\* is strictly later than every event handled before it.
C36_NeverInThePast ==
    [][/\ \A id \in 1..Len(evs) :
             Handles(evs[id]) =>
                \A n \in Scheduled : evs'[n].point.time >= evs[id].point.time - ABS_TOL
       /\ TakesBatch =>
             \A k \in 1..Len(handled) :
                 evs[events[1]].point.time > evs[handled[k]].point.time]_vars

\* the event run() is about to handle was put into the queue by a handler, at
\* a time within the tolerance of the batch handled before
C36_Witness ==
    /\ pc = "batch"
    /\ pos_queue # <<>>
    /\ handled # <<>>
    /\ pos_queue[1][3] > Len(setup(augments).evs)
    /\ float_isclose(evs[pos_queue[1][3]].point.time, evs[handled[Len(handled)]].point.time)

\* the events handled or skipped so far in the open batch that were taken in
\* the same class, each pair in the order in which the two were popped
SameClassPairs ==
    {<<batch_log[q[1]], batch_log[q[2]]>> :
        q \in {r \in (1..Len(batch_log)) \X (1..Len(batch_log)) :
                  r[1] < r[2] /\ TakenClass(batch_log[r[1]]) = TakenClass(batch_log[r[2]])}}

\* C37 as amended: within one same-time batch of run(), events of the same
\* priority class are handled in ascending order of position, the event at
\* the lower position first.
C37_LowerPositionFirst ==
    \A p \in SameClassPairs : evs[p[1]].point.position <= evs[p[2]].point.position

\* C37: within one same-time batch of run(), events of the same priority
\* class are handled in the relative order that Event.__lt__ gives them, the
\* event at the higher position first.
C37_QueueOrderWithinClass ==
    \A p \in SameClassPairs :
        /\ ~Event__lt(evs[p[2]], evs[p[1]])
        /\ evs[p[1]].point.position >= evs[p[2]].point.position

\* two events of one class and one priority, at different positions, have been
\* handled in the open batch
C37_Witness ==
    \E p \in SameClassPairs :
        /\ evs[p[1]].priority = evs[p[2]].priority
        /\ ~evs[p[1]].disabled /\ ~evs[p[2]].disabled
        /\ evs[p[1]].point.position # evs[p[2]].point.position

-----------------------------------------------------------------------------
(* Properties of Interface.intersection, continued *)

\* the time at which the lines of a and b cross
TimeOfCrossing(a, b) ==
    FDiv(b.point.position - FMul(b.slope, b.point.time)
           - a.point.position + FMul(a.slope, a.point.time),
         a.slope - b.slope)

\* time is within the bounds of self, further from either bound than the
\* rounding of a computed time
WellWithin(self, time) ==
    /\ self.e0.time + MaxOf(RoundingErrors) < time
    /\ time + MaxOf(RoundingErrors) < self.e1.time

\* C38: Interface.intersection returns the crossing point whenever the two
\* slopes are not parallel within tolerance and the crossing time lies within
\* the time bounds of both interfaces, whatever the position of the crossing,
\* position 0 included; it returns None only when the slopes are parallel or
\* the crossing time lies outside a bound.
C38_CrossingReturned ==
    (probe.op = "intersected") =>
        /\ (/\ ~float_isclose(probe.a.slope, probe.b.slope)
            /\ WellWithin(probe.a, TimeOfCrossing(probe.a, probe.b))
            /\ WellWithin(probe.b, TimeOfCrossing(probe.a, probe.b)))
           => /\ ~probe.ab.raises
              /\ probe.ab.pt # NoPoint
              /\ float_isclose(probe.ab.pt.time, TimeOfCrossing(probe.a, probe.b))
              /\ float_isclose(probe.ab.pt.position,
                               get_pos_at_time(probe.a, TimeOfCrossing(probe.a, probe.b)))
        /\ (~probe.ab.raises /\ probe.ab.pt = NoPoint)
           => \/ float_isclose(probe.a.slope, probe.b.slope)
              \/ ~WellWithin(probe.a, TimeOfCrossing(probe.a, probe.b))
              \/ ~WellWithin(probe.b, TimeOfCrossing(probe.a, probe.b))

-----------------------------------------------------------------------------
(* Properties of _handle_capacity_event, continued *)

\* this step handles the capacity event e, which supplies a prior capacity,
\* on an interface that exists at the time of e, and the flow of the state
\* resolved below the point of e is not that capacity
HandlesOutdated(e) ==
    /\ e.type = "capacity"
    /\ RunsCapacity(e)
    /\ e.prior_capacity # AnyCapacity
    /\ ~AboveOf(e).raises /\ ~BelowOf(e).raises
    /\ BelowOf(e).state.flow # e.prior_capacity

\* C39: a capacity event that supplies a prior capacity takes effect only when
\* the flow of the state resolved below its point equals that capacity
\* exactly; when the two differ the event adds no interface, schedules nothing
\* and changes no state or bound.
C39_ExplicitPriorExact ==
    [][\A id \in 1..Len(evs) :
          HandlesOutdated(evs[id]) =>
             /\ interfaces' = interfaces /\ evs' = evs /\ events' = events
             /\ intersections' = intersections /\ truncations' = truncations
             /\ err' = "none"]_vars

\* the release event of a bottleneck has just been handled on an interface
\* that exists at its time, and the state below it does not flow at the
\* capacity of the bottleneck, though an interface with states lies below
C39_Witness ==
    /\ pc \in {"loop", "batch"}
    /\ handled # <<>>
    /\ evs[handled[Len(handled)]].type = "capacity"
    /\ ~evs[handled[Len(handled)]].disabled
    /\ evs[handled[Len(handled)]].prior_capacity # AnyCapacity
    /\ ~get_pos_at_time_is_None(interfaces[evs[handled[Len(handled)]].interface],
                                evs[handled[Len(handled)]].point.time)
    /\ ~resolve_state(interfaces, diagram, evs[handled[Len(handled)]].point, TRUE).raises
    /\ resolve_state(interfaces, diagram, evs[handled[Len(handled)]].point, TRUE).state
          # get_initial_state(diagram)
    /\ resolve_state(interfaces, diagram, evs[handled[Len(handled)]].point, TRUE).state.flow
          # evs[handled[Len(handled)]].prior_capacity

-----------------------------------------------------------------------------
(* Properties of the bounds of the interfaces *)

\* C40: in every state reached during run() the lower bound of every interface
\* of the list is not later than its upper bound, and every step leaves the
\* lower bound of every interface where it was or later and the upper bound
\* where it was or earlier.
C40_BoundsOnlyTighten ==
    [][/\ \A i \in 1..Len(interfaces') :
             interfaces'[i].e0.time <= interfaces'[i].e1.time
       /\ \A i \in 1..Len(interfaces) :
             /\ Len(interfaces') >= i
             /\ interfaces'[i].e0.time >= interfaces[i].e0.time
             /\ interfaces'[i].e1.time <= interfaces[i].e1.time]_vars

\* a user interface has been cut on both sides: it begins later and ends
\* earlier than its augmenter made it
C40_Witness ==
    \E i \in 1..Len(interfaces) :
        /\ i <= Len(Born)
        /\ interfaces[i].e0.time > Born[i].e0.time
        /\ interfaces[i].e1.time < Born[i].e1.time

====
